---- MODULE Spec2Model ----
(***************************************************************************)
(* Model of astdocs (src/astdocs/astdocs.py): extraction of Markdown       *)
(* documentation from the abstract syntax tree of Python code.             *)
(*                                                                         *)
(* A text is a sequence of atoms.  Everything the code measures, searches  *)
(* or rewrites character by character (names, parameters, annotations,     *)
(* docstrings, paths, line breaks) is spelled one character per atom; the  *)
(* fixed pieces of the templates, which the code only ever moves around    *)
(* whole, are one atom each.                                               *)
(***************************************************************************)
EXTENDS Integers, Sequences, FiniteSets, TLC

VARIABLES
    TPL_CLASSDEF,     \* template of a class block (string.Template, mutable)
    TPL_FUNCTIONDEF,  \* template of a function block
    TPL_MODULE,       \* template of a module summary
    config,           \* the module-level configuration dictionary
    objects,          \* the module-level index of all objects encountered
    call,             \* the arguments of the latest render call
    ret,              \* what the latest render call returned
    classes,          \* class registry of the latest render call, at its end
    functions,        \* function registry of the latest render call, at its end
    parsed,           \* the registries as parse returned them to that call
    ncalls,           \* number of calls made so far
    parse_defaults    \* the default values of parse's classes, functions and imports

vars == <<TPL_CLASSDEF, TPL_FUNCTIONDEF, TPL_MODULE, config, objects, call, ret, classes, functions, parsed, ncalls, parse_defaults>>

-----------------------------------------------------------------------------
(* Texts: the str methods and re functions the code uses.                  *)

NL == "\n"
SP == " "
\* the backquote character
BT == "BACKQUOTE"

\* the value of F at e: e is computed first, then named within F
Let(e, F(_)) == CHOOSE r \in {F(x) : x \in {e}} : TRUE

\* the least and the greatest element of a non-empty set of numbers
MinOf(I) == CHOOSE j \in I : \A k \in I : j <= k
MaxOf(I) == CHOOSE j \in I : \A k \in I : j >= k

\* the texts of a list, one after the other
RECURSIVE Concat(_)
Concat(ss) ==
    IF Len(ss) = 0 THEN <<>>
    ELSE IF Len(ss) = 1 THEN ss[1]
    ELSE Concat(SubSeq(ss, 1, Len(ss) \div 2)) \o Concat(SubSeq(ss, Len(ss) \div 2 + 1, Len(ss)))

\* str.join on a list of texts
Join(ss, sep) ==
    IF Len(ss) = 0 THEN <<>>
    ELSE Concat([i \in 1..(2 * Len(ss) - 1) |-> IF i % 2 = 1 THEN ss[(i + 1) \div 2] ELSE sep])

\* the atoms of s whose index is in I, in order
KeepIndex(s, I) ==
    Let(SelectSeq([i \in 1..Len(s) |-> i], LAMBDA i : i \in I), LAMBDA ix :
        [k \in 1..Len(ix) |-> s[ix[k]]])

\* str.startswith
StartsWith(s, p) == Len(s) >= Len(p) /\ SubSeq(s, 1, Len(p)) = p

\* true when p occurs in s at index i
MatchAt(s, i, p) == i + Len(p) - 1 <= Len(s) /\ SubSeq(s, i, i + Len(p) - 1) = p

\* str.find from index i: index of the first occurrence of p, 0 when there is none
FindFrom(s, i, p) ==
    Let({j \in i..(Len(s) - Len(p) + 1) : MatchAt(s, j, p)}, LAMBDA I :
        IF I = {} THEN 0 ELSE MinOf(I))

\* p in s
Contains(s, p) == \E j \in 1..(Len(s) - Len(p) + 1) : MatchAt(s, j, p)

\* str.replace(old, new, 1)
ReplaceFirst(s, old, new) ==
    Let(FindFrom(s, 1, old), LAMBDA i :
        IF i = 0 THEN s
        ELSE SubSeq(s, 1, i - 1) \o new \o SubSeq(s, i + Len(old), Len(s)))

\* str.replace(old, new), old not empty, from index i on
RECURSIVE ReplaceFrom(_, _, _, _)
ReplaceFrom(s, i, old, new) ==
    Let(FindFrom(s, i, old), LAMBDA j :
        IF j = 0 THEN SubSeq(s, i, Len(s))
        ELSE SubSeq(s, i, j - 1) \o new \o ReplaceFrom(s, j + Len(old), old, new))

ReplaceAll(s, old, new) == ReplaceFrom(s, 1, old, new)

\* str.count of a single character
Count(s, c) == Cardinality({i \in 1..Len(s) : s[i] = c})

\* first index from i on whose atom is not in cs (Len(s) + 1 when there is none)
SpanWhile(s, i, cs) ==
    CHOOSE j \in i..(Len(s) + 1) :
        /\ j > Len(s) \/ s[j] \notin cs
        /\ \A k \in i..(j - 1) : s[k] \in cs

\* last index up to i whose atom is not in cs (0 when there is none)
SpanBack(s, i, cs) ==
    CHOOSE j \in 0..i :
        /\ j = 0 \/ s[j] \notin cs
        /\ \A k \in (j + 1)..i : s[k] \in cs

\* str.split(c)[-1]
LastPart(s, c) ==
    Let({i \in 1..Len(s) : s[i] = c}, LAMBDA I :
        IF I = {} THEN s ELSE SubSeq(s, MaxOf(I) + 1, Len(s)))

\* index of the line break ending the line that holds index i (Len(s) + 1 at the end)
LineEnd(s, i) ==
    CHOOSE j \in i..(Len(s) + 1) :
        /\ j > Len(s) \/ s[j] = NL
        /\ \A k \in i..(j - 1) : s[k] # NL

\* str.split("\n")[0]
FirstLine(s) == SubSeq(s, 1, LineEnd(s, 1) - 1)

\* the characters \s matches, and str.strip() removes
WhiteSpace == {SP, NL}

\* str.lstrip(cs) and str.rstrip(cs)
LStrip(s, cs) == SubSeq(s, SpanWhile(s, 1, cs), Len(s))
RStrip(s, cs) == SubSeq(s, 1, SpanBack(s, Len(s), cs))

\* str.strip()
Strip(s) == RStrip(LStrip(s, WhiteSpace), WhiteSpace)

\* str.lower(), on the upper-case letters the sources use
Lower(s) ==
    [i \in 1..Len(s) |->
        CASE s[i] = "A" -> "a"
          [] s[i] = "B" -> "b"
          [] s[i] = "C" -> "c"
          [] s[i] = "H" -> "h"
          [] OTHER -> s[i]]

\* str(n) for a natural number n, one digit per atom
Digit(d) == CASE d = 0 -> "0" [] d = 1 -> "1" [] d = 2 -> "2" [] d = 3 -> "3" [] d = 4 -> "4" [] d = 5 -> "5" [] d = 6 -> "6" [] d = 7 -> "7" [] d = 8 -> "8" [] d = 9 -> "9"

RECURSIVE Str(_)
Str(n) == IF n < 10 THEN <<Digit(n)>> ELSE Append(Str(n \div 10), Digit(n % 10))

\* the text as it is
CollapseNLKept(s) == s

\* re.sub(r"\n{3,}", "\n\n", s): a line break that follows two others goes
CollapseNL(s) ==
    KeepIndex(s, {i \in 1..Len(s) : ~(s[i] = NL /\ i >= 3 /\ s[i - 1] = NL /\ s[i - 2] = NL)})

-----------------------------------------------------------------------------
(* Templates and configuration.                                            *)

\* TPL: the page, "$module\n\n$functions\n\n$classes" (never modified)
TPL == <<"$module", NL, NL, "$functions", NL, NL, "$classes">>

\* the text of TPL_CLASSDEF when the module is loaded
TPL_CLASSDEF_0 ==
    <<NL, "%%%", "START", " CLASSDEF ", "$ancestry", ".", "$classname",
      NL, "$hashtags", SP, BT, "$ancestry", ".", "$classname", BT,
      NL,
      NL, "$classdocs",
      NL,
      NL, "$decoration",
      NL,
      NL, "$funcnames",
      NL,
      NL, "%%%", "SOURCE", SP, "$path", ":", "$lineno", ":", "$endlineno",
      NL,
      NL, "$hashtags", "#", SP, "Constructor",
      NL,
      NL, BT, BT, BT, "python",
      NL, "$classname", "(", "$params", ")",
      NL, BT, BT, BT,
      NL,
      NL, "$constdocs",
      NL,
      NL, "$functions",
      NL, "%%%", "END", " CLASSDEF ", "$ancestry", ".", "$classname">>

\* the text of TPL_FUNCTIONDEF when the module is loaded
TPL_FUNCTIONDEF_0 ==
    <<NL, "%%%", "START", " FUNCTIONDEF ", "$ancestry", ".", "$funcname",
      NL, "$hashtags", SP, BT, "$ancestry", ".", "$funcname", BT,
      NL,
      NL, BT, BT, BT, "python",
      NL, "$funcname", "(", "$params", ")", "$output", ":",
      NL, BT, BT, BT,
      NL,
      NL, "$funcdocs",
      NL,
      NL, "$decoration",
      NL,
      NL, "%%%", "SOURCE", SP, "$path", ":", "$lineno", ":", "$endlineno",
      NL, "%%%", "END", " FUNCTIONDEF ", "$ancestry", ".", "$funcname">>

\* the text of TPL_MODULE when the module is loaded
TPL_MODULE_0 ==
    <<NL, "%%%", "START", " MODULE ", "$module",
      NL, "#", SP, "Module", SP, BT, "$module", BT,
      NL,
      NL, "$docstring",
      NL,
      NL, "$funcnames",
      NL,
      NL, "$classnames",
      NL, "%%%", "END", " MODULE ", "$module">>

\* what [A-Z]+ can match after %%% in a template
UpperWords == {"START", "END", "BEGIN", "SOURCE"}

\* the placeholders of the templates, by the key they stand for
PH ==
    [ancestry |-> "$ancestry", classname |-> "$classname", hashtags |-> "$hashtags",
     classdocs |-> "$classdocs", decoration |-> "$decoration", funcnames |-> "$funcnames",
     path |-> "$path", lineno |-> "$lineno", endlineno |-> "$endlineno",
     params |-> "$params", constdocs |-> "$constdocs", functions |-> "$functions",
     funcname |-> "$funcname", output |-> "$output", funcdocs |-> "$funcdocs",
     module |-> "$module", docstring |-> "$docstring", classnames |-> "$classnames",
     classes |-> "$classes"]

\* string.Template.substitute: every placeholder becomes the text sub[key]
Substitute(tpl, sub) ==
    Concat([i \in 1..Len(tpl) |->
        Let({k \in DOMAIN sub : k \in DOMAIN PH /\ PH[k] = tpl[i]}, LAMBDA ks :
            IF ks # {} THEN sub[CHOOSE k \in ks : TRUE] ELSE <<tpl[i]>>)])

\* re.sub(r"\n%%%[A-Z]+ KIND <name>", "", template): kind is the atom " KIND ",
\* name the atoms of the qualified name
MarkerAt(t, i, kind, name) ==
    /\ i + 3 + Len(name) <= Len(t)
    /\ t[i] = NL
    /\ t[i + 1] = "%%%"
    /\ t[i + 2] \in UpperWords
    /\ t[i + 3] = kind
    /\ SubSeq(t, i + 4, i + 3 + Len(name)) = name

RECURSIVE RemoveMarkersFrom(_, _, _, _)
RemoveMarkersFrom(t, i, kind, name) ==
    Let({j \in i..Len(t) : MarkerAt(t, j, kind, name)}, LAMBDA I :
        IF I = {} THEN SubSeq(t, i, Len(t))
        ELSE SubSeq(t, i, MinOf(I) - 1) \o RemoveMarkersFrom(t, MinOf(I) + 4 + Len(name), kind, name))

RemoveMarkers(t, kind, name) == RemoveMarkersFrom(t, 1, kind, name)

ClassName == <<"$ancestry", ".", "$classname">>
FuncName == <<"$ancestry", ".", "$funcname">>
ModuleName == <<"$module">>

\* "\n\n%%%SOURCE $path:$lineno:$endlineno"
SourceLine == <<NL, NL, "%%%", "SOURCE", SP, "$path", ":", "$lineno", ":", "$endlineno">>

\* the default configuration
DefaultFold == 88

config_0 ==
    [bound_objects |-> FALSE,
     fold_args_after |-> DefaultFold,
     show_private |-> FALSE,
     split_by |-> <<>>,
     with_linenos |-> FALSE]

\* _update_templates: the three templates after the call, given as they were before
\* it; t is the record of the three templates
UpdateTemplatesBound(t, cfg) ==
    IF ~cfg.bound_objects
    THEN [c |-> RemoveMarkers(t.c, " CLASSDEF ", ClassName),
          f |-> RemoveMarkers(t.f, " FUNCTIONDEF ", FuncName),
          m |-> RemoveMarkers(t.m, " MODULE ", ModuleName)]
    ELSE t

UpdateTemplatesSplit(t, cfg) ==
    [c |-> IF Contains(cfg.split_by, <<"c">>)
           THEN <<"%%%", "BEGIN", " CLASSDEF ">> \o ClassName \o t.c ELSE t.c,
     f |-> IF Contains(cfg.split_by, <<"f">>)
           THEN <<"%%%", "BEGIN", " FUNCTIONDEF ">> \o FuncName \o t.f ELSE t.f,
     m |-> IF Contains(cfg.split_by, <<"m">>)
           THEN <<"%%%", "BEGIN", " MODULE ">> \o ModuleName \o t.m ELSE t.m]

UpdateTemplatesLinenos(t, cfg) ==
    IF ~cfg.with_linenos
    THEN [c |-> ReplaceAll(t.c, SourceLine, <<>>),
          f |-> ReplaceAll(t.f, SourceLine, <<>>),
          m |-> t.m]
    ELSE t

update_templates(t, cfg) ==
    UpdateTemplatesLinenos(UpdateTemplatesSplit(UpdateTemplatesBound(t, cfg), cfg), cfg)

\* _update_configuration: the configuration read from the environment; a variable
\* is a record [set, val]
Truthy == {"1", "on", "true", "yes"}

EnvFlag(v) == v.set /\ v.val \in Truthy

update_configuration(env) ==
    [bound_objects |-> EnvFlag(env.ASTDOCS_BOUND_OBJECTS),
     fold_args_after |-> IF env.ASTDOCS_FOLD_ARGS_AFTER.set THEN env.ASTDOCS_FOLD_ARGS_AFTER.val ELSE DefaultFold,
     show_private |-> EnvFlag(env.ASTDOCS_SHOW_PRIVATE),
     split_by |-> IF env.ASTDOCS_SPLIT_BY.set THEN env.ASTDOCS_SPLIT_BY.val ELSE <<>>,
     with_linenos |-> EnvFlag(env.ASTDOCS_WITH_LINENOS)]

-----------------------------------------------------------------------------
(* Dictionaries keep insertion order: a dictionary is a sequence of        *)
(* <<key, value>> pairs with distinct keys.                                *)

DKeys(d) == [i \in 1..Len(d) |-> d[i][1]]

DHas(d, k) == \E i \in 1..Len(d) : d[i][1] = k

DGet(d, k) == d[CHOOSE i \in 1..Len(d) : d[i][1] = k][2]

\* d[k] = v: an existing key keeps its place
DPut(d, k, v) ==
    IF DHas(d, k)
    THEN [i \in 1..Len(d) |-> IF d[i][1] = k THEN <<k, v>> ELSE d[i]]
    ELSE Append(d, <<k, v>>)

\* d.pop(k) that leaves the entry in place
DPopKept(d, k) == d

\* d.pop(k)
DPop(d, k) == SelectSeq(d, LAMBDA e : e[1] # k)

-----------------------------------------------------------------------------
(* The abstract syntax tree (module ast).  A node is a record with a kind; *)
(* None is the node of kind "None".                                        *)

None == [kind |-> "None"]

\* a constant, with the type of its value; the value of a number is kept in n
\* (values of distinct types are not comparable)
ConstantNone == [kind |-> "Constant", type |-> "NoneType"]
ConstantStr(value) == [kind |-> "Constant", type |-> "str", value |-> value]
ConstantInt(value) == [kind |-> "Constant", type |-> "int", n |-> value]

Name(id) == [kind |-> "Name", id |-> id]
Attribute(value, attr) == [kind |-> "Attribute", value |-> value, attr |-> attr]
BinOp(left, right) == [kind |-> "BinOp", left |-> left, right |-> right]
Keyword(arg, value) == [arg |-> arg, value |-> value]
\* the keyword of **value: its arg is None, written here as the empty name
DoubleStar(value) == Keyword(<<>>, value)
Call(func, args, keywords) == [kind |-> "Call", func |-> func, args |-> args, keywords |-> keywords]
Dict(keys, values) == [kind |-> "Dict", keys |-> keys, values |-> values]
List(elts) == [kind |-> "List", elts |-> elts]
Set(elts) == [kind |-> "Set", elts |-> elts]
Tuple(elts) == [kind |-> "Tuple", elts |-> elts]
Subscript(value, slice) == [kind |-> "Subscript", value |-> value, slice |-> slice]
Lambda == [kind |-> "Lambda"]
UnaryOp(operand) == [kind |-> "UnaryOp", operand |-> operand]
Starred(value) == [kind |-> "Starred", value |-> value]

\* ast.arg and ast.arguments
arg(name, annotation) == [arg |-> name, annotation |-> annotation]

arguments(args, defaults, vararg, kwonlyargs, kw_defaults, kwarg) ==
    [posonlyargs |-> <<>>, args |-> args, defaults |-> defaults, vararg |-> vararg,
     kwonlyargs |-> kwonlyargs, kw_defaults |-> kw_defaults, kwarg |-> kwarg]

\* the arguments of def f(<posonlyargs>, /, <args>)
posonly(posonlyargs, args) ==
    [arguments(args, <<>>, None, <<>>, <<>>, None) EXCEPT !.posonlyargs = posonlyargs]

\* doc is what ast.get_docstring(node) returns ("" when there is none)
FunctionDef(name, args, returns, decorator_list, doc, body, lineno, end_lineno) ==
    [kind |-> "FunctionDef", name |-> name, args |-> args, returns |-> returns,
     decorator_list |-> decorator_list, doc |-> doc, body |-> body,
     lineno |-> lineno, end_lineno |-> end_lineno]

ClassDef(name, decorator_list, doc, body, lineno, end_lineno) ==
    [kind |-> "ClassDef", name |-> name, decorator_list |-> decorator_list,
     doc |-> doc, body |-> body, lineno |-> lineno, end_lineno |-> end_lineno]

\* a statement with a body and no name (if, for, while, with, try)
If(body) == [kind |-> "If", body |-> body]

\* a statement with neither (an expression, an assignment, pass)
Pass == [kind |-> "Pass"]

alias(name, asname) == [name |-> name, asname |-> asname]
Import(names) == [kind |-> "Import", names |-> names]
ImportFrom(module, names, level) == [kind |-> "ImportFrom", module |-> module, names |-> names, level |-> level]

Module(doc, body) == [kind |-> "Module", doc |-> doc, body |-> body]

\* the node kinds with a name attribute, and those with a body attribute
HasName(n) == n.kind \in {"FunctionDef", "AsyncFunctionDef", "ClassDef"}
HasBody(n) == n.kind \in {"FunctionDef", "AsyncFunctionDef", "ClassDef", "If", "Module"}

-----------------------------------------------------------------------------
(* parse_annotation                                                        *)

RECURSIVE parse_annotation(_)
RECURSIVE AnnotationList(_)

\* [parse_annotation(a_) for a_ in elts]
AnnotationList(elts) == [i \in 1..Len(elts) |-> parse_annotation(elts[i])]

\* f"{a_.arg}": the name of a keyword, "None" for the one of **value
KeywordArg(k) == IF k.arg = <<>> THEN <<"N", "o", "n", "e">> ELSE k.arg

\* a text that is not empty, for a node no branch handles
UnhandledQuestion(a) == <<"?">>

\* return "": the node is absent or of a kind no branch handles
Unhandled(a) == <<>>

parse_annotation(a) ==
    CASE a.kind = "Attribute" -> parse_annotation(a.value) \o <<".">> \o a.attr
      [] a.kind = "BinOp" -> parse_annotation(a.left) \o <<SP, "|", SP>> \o parse_annotation(a.right)
      [] a.kind = "Call" ->
            parse_annotation(a.func) \o <<"(">>
            \o Join([i \in 1..Len(a.keywords) |-> KeywordArg(a.keywords[i]) \o <<"=">> \o parse_annotation(a.keywords[i].value)], <<",", SP>>)
            \o <<")">>
      [] a.kind = "Constant" ->
            (CASE a.type = "str" -> <<"\"">> \o a.value \o <<"\"">>
               [] a.type = "int" -> Str(a.n)
               [] OTHER -> <<"N", "o", "n", "e">>)
      [] a.kind = "Dict" ->
            <<"{">>
            \o Join([i \in 1..Len(a.keys) |-> parse_annotation(a.keys[i]) \o <<":", SP>> \o parse_annotation(a.values[i])], <<",", SP>>)
            \o <<"}">>
      [] a.kind = "List" -> <<"[">> \o Join(AnnotationList(a.elts), <<",", SP>>) \o <<"]">>
      [] a.kind = "Name" -> a.id
      [] a.kind = "Subscript" ->
            Let(parse_annotation(a.slice), LAMBDA v :
                Let(parse_annotation(a.value), LAMBDA s :
                s \o <<"[">>
                \o (IF v # <<>> /\ v[1] = "(" /\ v[Len(v)] = ")" THEN SubSeq(v, 2, Len(v) - 1) ELSE v)
                \o <<"]">>))
      [] a.kind = "Set" -> <<"{">> \o Join(AnnotationList(a.elts), <<",", SP>>) \o <<"}">>
      [] a.kind = "Tuple" -> <<"(">> \o Join(AnnotationList(a.elts), <<",", SP>>) \o <<")">>
      [] OTHER -> Unhandled(a)

-----------------------------------------------------------------------------
(* format_docstring                                                        *)

Lowers == {"a", "b", "c", "d", "e", "f", "g", "h", "i", "j", "k", "l", "m", "n", "o", "p", "q", "r", "s", "t", "u", "v", "w", "x", "y", "z"}
Uppers == {"A", "B", "C", "D", "E", "F", "G", "H", "I", "J", "K", "L", "M", "N", "O", "P", "Q", "R", "S", "T", "U", "V", "W", "X", "Y", "Z"}
Digits == {"0", "1", "2", "3", "4", "5", "6", "7", "8", "9"}

\* [A-Za-z ], [A-Za-z0-9_ ] and [A-Za-z0-9_\[\],\.| ]
TitleChars == Lowers \cup Uppers \cup {SP}
NameChars == Lowers \cup Uppers \cup Digits \cup {"_", SP}
TypeChars == NameChars \cup {"[", "]", ",", ".", "|"}

\* n backquotes at index i
FenceAt(s, i, n) == i + n - 1 <= Len(s) /\ \A k \in 0..(n - 1) : s[i + k] = BT

\* index of the first run of n backquotes from q on, 0 when there is none
NextFence(s, q, n) ==
    Let({k \in q..Len(s) : FenceAt(s, k, n)}, LAMBDA J :
        IF J = {} THEN 0 ELSE MinOf(J))

\* index of the first run of n backquotes from p on that another run follows,
\* 0 when there is none
BlockStart(s, p, n) ==
    MinOf({j \in p..Len(s) : FenceAt(s, j, n) /\ NextFence(s, j + n, n) # 0} \cup {Len(s) + 1}) % (Len(s) + 1)

\* index of the last backquote of the block that starts at index j
BlockEnd(s, j, n) == NextFence(s, j + n, n) + n - 1

\* re.finditer(r"([`]{n}.*?[`]{n})", s, flags=re.DOTALL): the matched texts
RECURSIVE BlockMatches(_, _, _)
BlockMatches(s, p, n) ==
    IF BlockStart(s, p, n) = 0 THEN <<>>
    ELSE <<SubSeq(s, BlockStart(s, p, n), BlockEnd(s, BlockStart(s, p, n), n))>>
         \o BlockMatches(s, BlockEnd(s, BlockStart(s, p, n), n) + 1, n)

\* f"%%%BLOCK{i}"
Placeholder(i) == <<"%%%BLOCK">> \o Str(i)

\* the body of the inner loop, for the matches ms of one pattern from the i-th
\* on; st = [s, blocks]
RECURSIVE ReplaceBlocks(_, _, _)
ReplaceBlocks(st, ms, i) ==
    IF i > Len(ms) THEN st
    ELSE Let([s |-> ReplaceFirst(st.s, ms[i], Placeholder(Len(st.blocks))),
              blocks |-> Append(st.blocks, ms[i])], LAMBDA st1 :
             ReplaceBlocks(st1, ms, i + 1))

\* the outer loop, for the patterns with n, n - 1, ..., 3 backquotes
RECURSIVE ExtractBlocks(_, _)
ExtractBlocks(st, n) ==
    IF n < 3 THEN st
    ELSE Let(BlockMatches(st.s, 1, n), LAMBDA ms :
         Let(ReplaceBlocks(st, ms, 1), LAMBDA st1 :
             ExtractBlocks(st1, n - 1)))

\* the longest fence looked for (range(7, 2, -1))
MaxFence == 7

\* re.sub(r" {1,}\n", r"\n", s): a space goes when only spaces separate it from
\* the next line break
TrailingSpaces(s) ==
    KeepIndex(s, {i \in 1..Len(s) : ~(/\ s[i] = SP
                                       /\ SpanWhile(s, i, {SP}) <= Len(s)
                                       /\ s[SpanWhile(s, i, {SP})] = NL)})

\* re.sub(r"\n#+\s*(.*)", r"\n**\1**", s)
RECURSIVE Hashtags(_, _)
Hashtags(s, i) ==
    Let({j \in i..(Len(s) - 1) : s[j] = NL /\ s[j + 1] = "#"}, LAMBDA I :
        IF I = {} THEN SubSeq(s, i, Len(s))
        ELSE Let(SpanWhile(s, SpanWhile(s, MinOf(I) + 1, {"#"}), WhiteSpace), LAMBDA b :
             Let(LineEnd(s, b), LAMBDA e :
             SubSeq(s, i, MinOf(I) - 1) \o <<NL, "*", "*">> \o SubSeq(s, b, e - 1)
             \o <<"*", "*">> \o Hashtags(s, e))))

\* r"\n([A-Za-z ]+)\n-{3,}" matches at index j
SectionAt(s, j) ==
    Let(SpanWhile(s, j + 1, TitleChars), LAMBDA e :
        /\ s[j] = NL /\ e > j + 1 /\ e <= Len(s) /\ s[e] = NL
        /\ SpanWhile(s, e + 1, {"-"}) - (e + 1) >= 3)

\* re.sub(r"\n([A-Za-z ]+)\n-{3,}", r"\n**\1**\n", s)
RECURSIVE Sections(_, _)
Sections(s, i) ==
    Let({j \in i..Len(s) : SectionAt(s, j)}, LAMBDA I :
        IF I = {} THEN SubSeq(s, i, Len(s))
        ELSE Let(SpanWhile(s, MinOf(I) + 1, TitleChars), LAMBDA e :
             Let(SpanWhile(s, e + 1, {"-"}), LAMBDA d :
             SubSeq(s, i, MinOf(I) - 1) \o <<NL, "*", "*">> \o SubSeq(s, MinOf(I) + 1, e - 1)
             \o <<"*", "*", NL>> \o Sections(s, d))))

\* r"\n([A-Za-z0-9_ ]+)\n {2,}(.*)" matches at index j
UntypedAt(s, j) ==
    Let(SpanWhile(s, j + 1, NameChars), LAMBDA e :
        /\ s[j] = NL /\ e > j + 1 /\ e <= Len(s) /\ s[e] = NL
        /\ SpanWhile(s, e + 1, {SP}) - (e + 1) >= 2)

\* re.sub(r"\n([A-Za-z0-9_ ]+)\n {2,}(.*)", r"\n* `\1`: \2", s)
RECURSIVE UntypedEntries(_, _)
UntypedEntries(s, i) ==
    Let({j \in i..Len(s) : UntypedAt(s, j)}, LAMBDA I :
        IF I = {} THEN SubSeq(s, i, Len(s))
        ELSE Let(SpanWhile(s, MinOf(I) + 1, NameChars), LAMBDA e :
             Let(SpanWhile(s, e + 1, {SP}), LAMBDA b :
             Let(LineEnd(s, b), LAMBDA z :
             SubSeq(s, i, MinOf(I) - 1) \o <<NL, "*", SP, BT>> \o SubSeq(s, MinOf(I) + 1, e - 1)
             \o <<BT, ":", SP>> \o SubSeq(s, b, z - 1) \o UntypedEntries(s, z)))))

\* the index of the " : " that ends the name of a typed entry starting at index i
\* (0 when the line is no typed entry): the name and the type hold no colon
TypedSeparator(s, i) ==
    Let(SpanWhile(s, i, NameChars), LAMBDA e :
        IF e - 1 > i /\ e + 1 <= Len(s) /\ s[e - 1] = SP /\ s[e] = ":" /\ s[e + 1] = SP
        THEN e - 1 ELSE 0)

\* r"\n([A-Za-z0-9_ ]+) : ([A-Za-z0-9_\[\],\.| ]+)\n {2,}(.*)" matches at index j
TypedAt(s, j) ==
    /\ s[j] = NL
    /\ Let(TypedSeparator(s, j + 1), LAMBDA c :
           /\ c # 0
           /\ Let(SpanWhile(s, c + 3, TypeChars), LAMBDA e :
                  /\ e > c + 3 /\ e <= Len(s) /\ s[e] = NL
                  /\ SpanWhile(s, e + 1, {SP}) - (e + 1) >= 2))

\* re.sub(r"\n([A-Za-z0-9_ ]+) : ([A-Za-z0-9_\[\],\.| ]+)\n {2,}(.*)",
\*        r"\n* `\1` [`\2`]: \3", s)
RECURSIVE TypedEntries(_, _)
TypedEntries(s, i) ==
    Let({j \in i..Len(s) : TypedAt(s, j)}, LAMBDA I :
        IF I = {} THEN SubSeq(s, i, Len(s))
        ELSE Let(TypedSeparator(s, MinOf(I) + 1), LAMBDA c :
             Let(SpanWhile(s, c + 3, TypeChars), LAMBDA e :
             Let(SpanWhile(s, e + 1, {SP}), LAMBDA b :
             Let(LineEnd(s, b), LAMBDA z :
             SubSeq(s, i, MinOf(I) - 1) \o <<NL, "*", SP, BT>> \o SubSeq(s, MinOf(I) + 1, c - 1)
             \o <<BT, SP, "[", BT>> \o SubSeq(s, c + 3, e - 1) \o <<BT, "]", ":", SP>>
             \o SubSeq(s, b, z - 1) \o TypedEntries(s, z))))))

\* r"\n: ([A-Za-z0-9_\[\],\.| ]+)\n {2,}(.*)" matches at index j
ReturnAt(s, j) ==
    /\ s[j] = NL /\ j + 2 <= Len(s) /\ s[j + 1] = ":" /\ s[j + 2] = SP
    /\ Let(SpanWhile(s, j + 3, TypeChars), LAMBDA e :
           /\ e > j + 3 /\ e <= Len(s) /\ s[e] = NL
           /\ SpanWhile(s, e + 1, {SP}) - (e + 1) >= 2)

\* re.sub(r"\n: ([A-Za-z0-9_\[\],\.| ]+)\n {2,}(.*)", r"\n* [`\1`]: \2", s)
RECURSIVE ReturnEntries(_, _)
ReturnEntries(s, i) ==
    Let({j \in i..Len(s) : ReturnAt(s, j)}, LAMBDA I :
        IF I = {} THEN SubSeq(s, i, Len(s))
        ELSE Let(SpanWhile(s, MinOf(I) + 3, TypeChars), LAMBDA e :
             Let(SpanWhile(s, e + 1, {SP}), LAMBDA b :
             Let(LineEnd(s, b), LAMBDA z :
             SubSeq(s, i, MinOf(I) - 1) \o <<NL, "*", SP, "[", BT>> \o SubSeq(s, MinOf(I) + 3, e - 1)
             \o <<BT, "]", ":", SP>> \o SubSeq(s, b, z - 1) \o ReturnEntries(s, z)))))

\* the regular expressions, in the order the code applies them
Rewrite(s) ==
    ReturnEntries(TypedEntries(UntypedEntries(Sections(Hashtags(TrailingSpaces(s), 1), 1), 1), 1), 1)

\* for i, b in enumerate(blocks): s = s.replace(f"%%%BLOCK{i}", b)
RECURSIVE RestoreBlocks(_, _, _)
RestoreBlocks(s, blocks, i) ==
    IF i >= Len(blocks) THEN s
    ELSE Let(ReplaceAll(s, Placeholder(i), blocks[i + 1]), LAMBDA s1 :
             RestoreBlocks(s1, blocks, i + 1))

\* format_docstring, on the text ast.get_docstring returns
format_docstring(doc) ==
    Let(ExtractBlocks([s |-> doc, blocks |-> <<>>], MaxFence), LAMBDA st :
    Let(Rewrite(st.s), LAMBDA s :
        Strip(RestoreBlocks(s, st.blocks, 0))))

-----------------------------------------------------------------------------
(* parse_class, parse_function, parse_import, parse.  The state of a parse *)
(* is the record st = [classes, functions, imports, objects].              *)

\* objects[module][kind][lp] = ap
SaveObject(objs, module, kind, lp, ap) ==
    Let(DGet(objs, module), LAMBDA m :
        DPut(objs, module, [m EXCEPT ![kind] = DPut(m[kind], lp, ap)]))

\* ap.replace(module, "", 1).lstrip(".")
LocalPath(ap, module) == LStrip(ReplaceFirst(ap, module, <<>>), {"."})

\* "**Decoration** via " + ", ".join(dc) + "." if dc else ""
Decoration(decorator_list) ==
    IF decorator_list = <<>> THEN <<>>
    ELSE <<"*", "*", "Decoration", "*", "*", SP, "via", SP>>
         \o Join([i \in 1..Len(decorator_list) |-> <<BT, "@">> \o parse_annotation(decorator_list[i]) \o <<BT>>], <<",", SP>>)
         \o <<".">>

parse_class(node, module, ancestry, st, cfg) ==
    Let(ancestry \o <<".">> \o node.name, LAMBDA ap :
        [st EXCEPT
            !.objects = SaveObject(st.objects, module, "classes", LocalPath(ap, module), ap),
            !.classes = DPut(st.classes, ap,
                [ancestry |-> ancestry,
                 classname |-> node.name,
                 classdocs |-> format_docstring(node.doc),
                 decoration |-> Decoration(node.decorator_list),
                 endlineno |-> Str(node.end_lineno),
                 hashtags |-> IF Contains(cfg.split_by, <<"c">>) THEN <<"#">> ELSE <<"#", "#", "#">>,
                 lineno |-> Str(node.lineno)])])

\* _parse_format_argument
parse_format_argument(ann, val) ==
    ann.arg
    \o (IF ann.annotation # None THEN <<":", SP>> \o parse_annotation(ann.annotation) ELSE <<>>)
    \o (IF val # None THEN <<SP, "=", SP>> \o parse_annotation(val) ELSE <<>>)

\* list(itertools.zip_longest(xs[::-1], ds[::-1]))[::-1], for Len(ds) <= Len(xs):
\* the i-th parameter with its default, None when it has none
Accolate(xs, ds) ==
    [i \in 1..Len(xs) |->
        parse_format_argument(xs[i], IF i > Len(xs) - Len(ds) THEN ds[i - (Len(xs) - Len(ds))] ELSE None)]

\* the list params, before folding
Params(a) ==
    Accolate(a.args, a.defaults)
    \o (IF a.vararg # None THEN << <<"*">> \o a.vararg.arg >> ELSE <<>>)
    \o Accolate(a.kwonlyargs, a.kw_defaults)
    \o (IF a.kwarg # None THEN << <<"*", "*">> \o a.kwarg.arg >> ELSE <<>>)

\* the return annotation, as the text that follows the closing parenthesis
Output(node) ==
    IF node.returns # None THEN <<SP, "-", ">", SP>> \o parse_annotation(node.returns) ELSE <<>>

\* the test of line 665: the call on one line is longer than the threshold
TooLong(node, params, output, cfg) ==
    Len(node.name \o <<"(">> \o Join(params, <<",", SP>>) \o <<")">> \o output) > cfg.fold_args_after

\* the value saved under "params"
FoldedParams(params) ==
    Join([i \in 1..Len(params) |-> <<NL, SP, SP, SP, SP>> \o params[i]], <<",">>) \o <<",", NL>>

parse_function(node, module, ancestry, st, cfg) ==
    Let(ancestry \o <<".">> \o node.name, LAMBDA ap :
    Let(Params(node.args), LAMBDA params :
    Let(Output(node), LAMBDA output :
        [st EXCEPT
            !.objects = SaveObject(st.objects, module, "functions", LocalPath(ap, module), ap),
            !.functions = DPut(st.functions, ap,
                [ancestry |-> ancestry,
                 params |-> IF TooLong(node, params, output, cfg) THEN FoldedParams(params) ELSE Join(params, <<",", SP>>),
                 decoration |-> Decoration(node.decorator_list),
                 endlineno |-> Str(node.end_lineno),
                 funcdocs |-> format_docstring(node.doc),
                 funcname |-> node.name,
                 hashtags |-> IF Contains(cfg.split_by, <<"f">>) THEN <<"#">> ELSE <<"#", "#", "#">>,
                 lineno |-> Str(node.lineno),
                 output |-> output])])))

\* "." * v
Dots(v) == [i \in 1..v |-> "."]

\* the imported name alone
AbsPathBare(node, ancestry, n) == n.name

\* the absolute path of the imported name n
AbsPath(node, ancestry, n) ==
    IF node.kind = "Import" THEN ancestry \o <<".">> \o n.name
    ELSE ancestry \o <<".">> \o Dots(IF node.level > 0 THEN node.level + 1 ELSE 0)
         \o (IF node.module # <<>> THEN node.module \o <<".">> ELSE <<>>) \o n.name

\* the loops of parse_import over node.names
RECURSIVE SaveImports(_, _, _, _, _)
SaveImports(node, module, ancestry, objs, i) ==
    IF i > Len(node.names) THEN objs
    ELSE Let(node.names[i], LAMBDA n :
             SaveImports(node, module, ancestry,
                         SaveObject(objs, module, "imports",
                                    IF n.asname # <<>> THEN n.asname ELSE n.name,
                                    AbsPath(node, ancestry, n)),
                         i + 1))

parse_import(node, module, ancestry, st, cfg) ==
    [st EXCEPT !.objects = SaveImports(node, module, ancestry, st.objects, 1)]

RECURSIVE parse(_, _, _, _, _, _)

\* the handler parse calls for the statement n: called without a configuration,
\* it reads the module-level one
Handle(n, module, ancestry, st) ==
    CASE n.kind = "ClassDef" -> parse_class(n, module, ancestry, st, config)
      [] n.kind \in {"AsyncFunctionDef", "FunctionDef"} -> parse_function(n, module, ancestry, st, config)
      [] n.kind \in {"Import", "ImportFrom"} -> parse_import(n, module, ancestry, st, config)
      [] OTHER -> st

\* a walk that enters no body
DescendNever(n, module, ancestry, st) == st

\* the recursive call of parse on the statement n, which passes no configuration
\* either; n.name or the body of n missing: AttributeError, continue
Descend(n, module, ancestry, st) ==
    IF HasName(n) /\ HasBody(n)
    THEN parse(n, 1, module, ancestry \o <<".">> \o n.name, st, config)
    ELSE st

\* parse: the loop over node.body from its i-th statement on
parse(node, i, module, ancestry, st, cfg) ==
    IF i > Len(node.body) THEN st
    ELSE Let(Handle(node.body[i], module, ancestry, st), LAMBDA st1 :
         Let(Descend(node.body[i], module, ancestry, st1), LAMBDA st2 :
             parse(node, i + 1, module, ancestry, st2, cfg)))

-----------------------------------------------------------------------------
(* render_function, render_class, render_module.  t is the record of the   *)
(* three templates as the call finds them.                                 *)

SELF == <<"s", "e", "l", "f">>
INIT == <<"_", "_", "i", "n", "i", "t", "_", "_">>

\* a test that shows every name
ShownAlways(n, cfg) == TRUE

\* not n.startswith("_") or config["show_private"]
Shown(n, cfg) == ~StartsWith(n, <<"_">>) \/ cfg.show_private

\* f.count(".") == module.count(".") + 1
AtRoot(f, module) == Count(f, ".") = Count(module, ".") + 1

\* f.replace(".", "").lower()
Link(f) == Lower(ReplaceAll(f, <<".">>, <<>>))

\* f"\n\n%%%SOURCE {filepath}:{beglineno}:{endlineno}"
SourceMarker(filepath, beglineno, endlineno) ==
    <<NL, NL, "%%%", "SOURCE", SP>> \o filepath \o <<":">> \o beglineno \o <<":">> \o endlineno

\* re.sub(r"self[\s,]*", "", params, 1).strip()
StripSelf(params) ==
    Let(FindFrom(params, 1, SELF), LAMBDA i :
        Strip(IF i = 0 THEN params
              ELSE SubSeq(params, 1, i - 1)
                   \o SubSeq(params, SpanWhile(params, i + Len(SELF), WhiteSpace \cup {","}), Len(params))))

\* f"* [`{n}()`](#{link}){desc}" and f"* [`{n}`](#{link}){desc}"
Bullet(n, call_, f, docs) ==
    Let(FirstLine(docs), LAMBDA desc :
        <<"*", SP, "[", BT>> \o n \o call_ \o <<BT, "]", "(", "#">> \o Link(f) \o <<")">>
        \o (IF desc # <<>> THEN <<":", SP>> \o desc ELSE <<>>))

\* returns [text, functions]
render_function(t, filepath, name, fns) ==
    Let(DPut(fns, name, ("path" :> filepath) @@ DGet(fns, name)), LAMBDA fns1 :
        [text |-> Strip(Substitute(t.f, DGet(fns1, name))), functions |-> fns1])

\* functions[f].update({"hashtags": ..., "params": ...})
UpdateMethod(fns, f, ht) ==
    Let(DGet(fns, f), LAMBDA e :
        DPut(fns, f, [e EXCEPT !.hashtags = ht \o <<"#", "#">>, !.params = StripSelf(e.params)]))

\* the loop "methods rendered" of render_class over fs, from its i-th name on;
\* acc = [fsr, functions]
RECURSIVE RenderMethods(_, _, _, _, _, _, _)
RenderMethods(t, filepath, fs, i, ht, cfg, acc) ==
    IF i > Len(fs) THEN acc
    ELSE IF ~Shown(LastPart(fs[i], "."), cfg)
    THEN RenderMethods(t, filepath, fs, i + 1, ht, cfg, acc)
    ELSE Let(render_function(t, filepath, fs[i], UpdateMethod(acc.functions, fs[i], ht)), LAMBDA r :
             RenderMethods(t, filepath, fs, i + 1, ht, cfg,
                           [fsr |-> Append(acc.fsr, r.text), functions |-> r.functions]))

\* a bullet for every name of fs
MethodBulletsAll(fs, fns, cfg) ==
    [i \in 1..Len(fs) |-> Bullet(LastPart(fs[i], "."), <<"(", ")">>, fs[i], DGet(fns, fs[i]).funcdocs)]

\* the loop "methods bullet list"
MethodBullets(fs, fns, cfg) ==
    Let(SelectSeq(fs, LAMBDA f : Shown(LastPart(f, "."), cfg)), LAMBDA shown :
        [i \in 1..Len(shown) |-> Bullet(LastPart(shown[i], "."), <<"(", ")">>, shown[i], DGet(fns, shown[i]).funcdocs)])

\* "fetch the content of __init__": [params, docstring, functions], n the name
\* of the constructor
Constructor(filepath, n, fns, cfg) ==
    IF DHas(fns, n)
    THEN Let(DGet(fns, n), LAMBDA details :
             [params |-> StripSelf(details.params),
              docstring |-> details.funcdocs
                            \o (IF cfg.with_linenos
                                THEN SourceMarker(filepath, details.lineno, details.endlineno) ELSE <<>>),
              functions |-> DPop(fns, n)])
    ELSE [params |-> <<>>, docstring |-> <<>>, functions |-> fns]

\* classes[name].update({...}); init is the constructor's content, m the methods
\* rendered, fsl their bullet list
UpdateClass(filepath, name, cls, ht, init, m, fsl) ==
    [params |-> init.params,
     constdocs |-> init.docstring,
     functions |-> IF m.fsr # <<>> THEN ht \o <<"#", SP, "Methods", NL, NL>> \o Join(m.fsr, <<NL, NL>>) ELSE <<>>,
     funcnames |-> IF fsl # <<>> THEN <<"*", "*", "Methods", "*", "*", NL, NL>> \o Join(fsl, <<NL>>) ELSE <<>>,
     path |-> filepath] @@ DGet(cls, name)

\* the methods of the class name, but its constructor
MethodsOf(name, fns) ==
    SelectSeq(DKeys(fns), LAMBDA f : StartsWith(f, name \o <<".">>) /\ f # name \o <<".">> \o INIT)

\* returns [text, classes, functions]
render_class(t, filepath, name, cls, fns, cfg) ==
    Let(DGet(cls, name).hashtags, LAMBDA ht :
    Let(MethodsOf(name, fns), LAMBDA fs :
    Let(Constructor(filepath, name \o <<".">> \o INIT, fns, cfg), LAMBDA init :
    Let(RenderMethods(t, filepath, fs, 1, ht, cfg, [fsr |-> <<>>, functions |-> init.functions]), LAMBDA m :
    Let(UpdateClass(filepath, name, cls, ht, init, m, MethodBullets(fs, m.functions, cfg)), LAMBDA entry :
        [text |-> Strip(Substitute(t.c, entry)),
         classes |-> DPut(cls, name, entry),
         functions |-> m.functions])))))

\* the bullet lists of render_module, under their titles
ModuleList(title, bullets, split) ==
    IF bullets # <<>> /\ ~split THEN <<"*", "*", title, "*", "*", NL, NL>> \o Join(bullets, <<NL>>) ELSE <<>>

render_module(t, name, docstring, cls, fns, cfg) ==
    Let(SelectSeq(DKeys(fns), LAMBDA f : AtRoot(f, name) /\ Shown(LastPart(f, "."), cfg)), LAMBDA fk :
    Let(SelectSeq(DKeys(cls), LAMBDA c : AtRoot(c, name) /\ Shown(LastPart(c, "."), cfg)), LAMBDA ck :
    Let([i \in 1..Len(fk) |-> Bullet(LastPart(fk[i], "."), <<"(", ")">>, fk[i], DGet(fns, fk[i]).funcdocs)], LAMBDA fs :
    Let([i \in 1..Len(ck) |-> Bullet(LastPart(ck[i], "."), <<>>, ck[i], DGet(cls, ck[i]).classdocs)], LAMBDA cs :
        Strip(Substitute(t.m,
            [classnames |-> ModuleList("Classes", cs, Contains(cfg.split_by, <<"c">>)),
             docstring |-> docstring,
             funcnames |-> ModuleList("Functions", fs, Contains(cfg.split_by, <<"f">>)),
             module |-> name]))))))

-----------------------------------------------------------------------------
(* render.  The file system is a dictionary from paths to what open and    *)
(* ast.parse make of them.                                                 *)

PY == <<".", "p", "y">>

\* os.getcwd().rsplit("/", 1)[-1]
Cwd == <<"w">>

\* re.sub(r"\n{2,}%%%(^SOURCE[A-Z]*)", r"\n%%%\1", s): after two or more line
\* breaks and %%%, the pattern asks for the beginning of the text (^), then SOURCE
CleanupAt(s, i) ==
    Let(SpanWhile(s, i, {NL}), LAMBDA k :
        /\ k - i >= 2 /\ k <= Len(s) /\ s[k] = "%%%"
        /\ k + 1 = 1
        /\ k + 1 <= Len(s) /\ s[k + 1] = "SOURCE")

RECURSIVE CleanupMarkers(_, _)
CleanupMarkers(s, i) ==
    Let({j \in i..Len(s) : CleanupAt(s, j)}, LAMBDA I :
        IF I = {} THEN SubSeq(s, i, Len(s))
        ELSE Let(SpanWhile(s, MinOf(I), {NL}), LAMBDA k :
             SubSeq(s, i, MinOf(I) - 1) \o <<NL, "%%%", "SOURCE">> \o CleanupMarkers(s, k + 2)))

\* the loop of render over the functions at the root of the module;
\* acc = [fs, functions]
RECURSIVE RenderFunctions(_, _, _, _, _)
RenderFunctions(t, filepath, fk, i, acc) ==
    IF i > Len(fk) THEN acc
    ELSE Let(render_function(t, filepath, fk[i], acc.functions), LAMBDA r :
             RenderFunctions(t, filepath, fk, i + 1, [fs |-> Append(acc.fs, r.text), functions |-> r.functions]))

\* the loop of render over the classes at the root of the module;
\* acc = [cs, classes, functions]
RECURSIVE RenderClasses(_, _, _, _, _, _)
RenderClasses(t, filepath, ck, i, cfg, acc) ==
    IF i > Len(ck) THEN acc
    ELSE Let(render_class(t, filepath, ck[i], acc.classes, acc.functions, cfg), LAMBDA r :
             RenderClasses(t, filepath, ck, i + 1, cfg,
                           [cs |-> Append(acc.cs, r.text), classes |-> r.classes, functions |-> r.functions]))

\* the names of the registry d render works on: at the root of the module, and shown
RootKeys(d, module, cfg) ==
    SelectSeq(DKeys(d), LAMBDA f : AtRoot(f, module) /\ Shown(LastPart(f, "."), cfg))

\* "\n\n".join(["## Title" if not split and xs else "", "\n\n".join(xs) if xs else ""])
Section(title, xs, split) ==
    Join(<< IF ~split /\ xs # <<>> THEN <<"#", "#", SP, title>> ELSE <<>>, Join(xs, <<NL, NL>>) >>, <<NL, NL>>)

\* "render each section according to provided options", and the cleanup
Page(t, module, docstring, rf, rc, cfg) ==
    CleanupMarkers(CollapseNL(Strip(Substitute(TPL,
        [classes |-> Section("Classes", rc.cs, Contains(cfg.split_by, <<"c">>)),
         functions |-> Section("Functions", rf.fs, Contains(cfg.split_by, <<"f">>)),
         module |-> render_module(t, module, docstring, rc.classes, rc.functions, cfg)]))), 1)

\* the rendering steps of render, for the registries p that parse returned
RenderParsed(t, p, docstring, filepath, module, cfg) ==
    Let(RenderFunctions(t, filepath, RootKeys(p.functions, module, cfg), 1,
                        [fs |-> <<>>, functions |-> p.functions]), LAMBDA rf :
    Let(RenderClasses(t, filepath, RootKeys(p.classes, module, cfg), 1, cfg,
                      [cs |-> <<>>, classes |-> p.classes, functions |-> rf.functions]), LAMBDA rc :
        [text |-> Page(t, module, docstring, rf, rc, cfg),
         objects |-> p.objects,
         classes |-> rc.classes,
         functions |-> rc.functions,
         parsed |-> [classes |-> p.classes, functions |-> p.functions]]))

\* objects = {module: {"classes": {}, "functions": {}, "imports": {}}}
ResetObjectsOnly(objs, module) ==
    << <<module, [classes |-> <<>>, functions |-> <<>>, imports |-> <<>>]>> >>

\* objects[module] = {"classes": {}, "functions": {}, "imports": {}}
ResetObjects(objs, module) ==
    DPut(objs, module, [classes |-> <<>>, functions |-> <<>>, imports |-> <<>>])

\* the same steps, the registries of the call before handed to parse
RenderTreeStale(t, objs, n, filepath, module, cfg) ==
    Let(parse(n, 1, module, module,
              [classes |-> parsed.classes, functions |-> parsed.functions, imports |-> <<>>,
               objects |-> ResetObjects(objs, module)],
              config), LAMBDA p :
        RenderParsed(t, p, format_docstring(n.doc), filepath, module, cfg))

\* the steps of render from "global objects" on, for the tree n;
\* returns [text, objects, classes, functions, parsed]
RenderTree(t, objs, n, filepath, module, cfg) ==
    Let(parse(n, 1, module, module,
              [classes |-> <<>>, functions |-> <<>>, imports |-> <<>>,
               objects |-> ResetObjects(objs, module)],
              config), LAMBDA p :
        RenderParsed(t, p, format_docstring(n.doc), filepath, module, cfg))

\* the files: a path leads to a tree, to a directory or to nothing
RECURSIVE PathKind(_, _, _)
PathKind(files, path, i) ==
    IF i > Len(files) THEN "missing"
    ELSE IF files[i][1] = path THEN files[i][2].kind
    ELSE PathKind(files, path, i + 1)

\* re.sub(r"\.py$", "", s)
StripPy(s) ==
    IF Len(s) >= Len(PY) /\ SubSeq(s, Len(s) - Len(PY) + 1, Len(s)) = PY
    THEN SubSeq(s, 1, Len(s) - Len(PY)) ELSE s

\* the module name render makes of a file path
ModuleOf(filepath) ==
    Let(ReplaceAll(LStrip(StripPy(ReplaceAll(filepath, <<"/">>, <<".">>)), {"."}), <<".">> \o INIT, <<>>), LAMBDA m :
        IF m # <<>> THEN m ELSE Cwd)

\* the code is a tree or NoCode (the empty string)
NoCode == [kind |-> "NoCode"]

\* what open(filepath) and ast.parse lead to
Opened(files, filepath) ==
    IF PathKind(files, filepath, 1) = "missing" THEN [kind |-> "missing"] ELSE DGet(files, filepath)

\* the branches of render on its arguments: the path, the module name and what
\* there is to parse
Input(files, filepath, remove_from_path, code, module) ==
    IF filepath # <<>>
    THEN Let(IF remove_from_path # <<>> THEN ReplaceAll(filepath, remove_from_path, <<>>) ELSE filepath, LAMBDA fp :
             [filepath |-> fp, module |-> ModuleOf(fp), n |-> Opened(files, fp)])
    ELSE IF code # NoCode /\ module # <<>>
    THEN [filepath |-> module \o PY, module |-> module, n |-> code]
    ELSE [filepath |-> filepath, module |-> module, n |-> NoCode]

Raise(exc, objs) ==
    [result |-> "raise", exc |-> exc, text |-> <<>>, objects |-> objs,
     classes |-> <<>>, functions |-> <<>>, parsed |-> [classes |-> <<>>, functions |-> <<>>]]

\* render, after _update_templates; files is the file system
render(t, objs, files, filepath, remove_from_path, code, module, cfg) ==
    Let(Input(files, filepath, remove_from_path, code, module), LAMBDA in :
        CASE in.n.kind = "Module" ->
                 [result |-> "return"] @@ RenderTree(t, objs, in.n, in.filepath, in.module, cfg)
          [] in.n.kind = "NoCode" ->
                 [result |-> "return", text |-> <<"Nothing to do.">>, objects |-> objs,
                  classes |-> <<>>, functions |-> <<>>, parsed |-> [classes |-> <<>>, functions |-> <<>>]]
          [] in.n.kind = "missing" -> Raise("FileNotFoundError", objs)
          [] in.n.kind = "dir" -> Raise("IsADirectoryError", objs)
          [] OTHER -> Raise("SyntaxError", objs))

-----------------------------------------------------------------------------
(* The sources rendered.                                                   *)

NoArgs == arguments(<<>>, <<>>, None, <<>>, <<>>, None)
Positional(args) == arguments(args, <<>>, None, <<>>, <<>>, None)

\* def f(a, bb) -> t:
\*     """Df."""
\* class C:
\*     """Dc."""
\*     def __init__(self, a):
\*         """Di."""
\*     def m(self, a, bb):
\*         """Dm."""
\*     def _p(self): pass
SourcePlain ==
    Module(<<>>,
        << FunctionDef(<<"f">>, Positional(<<arg(<<"a">>, None), arg(<<"b", "b">>, None)>>), Name(<<"t">>), <<>>, <<"D", "f", ".">>, <<Pass>>, 1, 2),
           ClassDef(<<"C">>, <<>>, <<"D", "c", ".">>,
               << FunctionDef(INIT, Positional(<<arg(SELF, None), arg(<<"a">>, None)>>), None, <<>>, <<"D", "i", ".">>, <<Pass>>, 5, 6),
                  FunctionDef(<<"m">>, Positional(<<arg(SELF, None), arg(<<"a">>, None), arg(<<"b", "b">>, None)>>), None, <<>>, <<"D", "m", ".">>, <<Pass>>, 7, 8),
                  FunctionDef(<<"_", "p">>, Positional(<<arg(SELF, None)>>), None, <<>>, <<>>, <<Pass>>, 9, 9) >>,
               3, 9) >>)

\* def _h():
\*     """Dh."""
\* class _H:
\*     """DH."""
SourcePrivate ==
    Module(<<>>,
        << FunctionDef(<<"_", "h">>, NoArgs, None, <<>>, <<"D", "h", ".">>, <<Pass>>, 1, 2),
           ClassDef(<<"_", "H">>, <<>>, <<"D", "H", ".">>, <<Pass>>, 4, 5) >>)

\* """Dg."""
\* def g() -> abc: pass
\* def h(a): pass
\* class B:
\*     def m(self): pass
SourceShort ==
    Module(<<"D", "g", ".">>,
        << FunctionDef(<<"g">>, NoArgs, Name(<<"a", "b", "c">>), <<>>, <<>>, <<Pass>>, 2, 2),
           FunctionDef(<<"h">>, Positional(<<arg(<<"a">>, None)>>), None, <<>>, <<>>, <<Pass>>, 3, 3),
           ClassDef(<<"B">>, <<>>, <<>>,
               << FunctionDef(<<"m">>, Positional(<<arg(SELF, None)>>), None, <<>>, <<>>, <<Pass>>, 5, 5) >>,
               4, 5) >>)

Sources == {SourcePlain, SourcePrivate, SourceShort}

\* the file system
Files ==
    << << <<"a", ".", "p", "y">>, SourceShort >>,
       << <<"d">>, [kind |-> "dir"] >>,
       << <<"d", "/", "a", ".", "p", "y">>, SourcePrivate >>,
       << <<"s", ".", "p", "y">>, [kind |-> "invalid"] >> >>

\* the arguments of the render calls made: [filepath, remove_from_path, code, module]
Calls ==
    {[filepath |-> <<>>, remove_from_path |-> <<>>, code |-> src, module |-> <<"m">>] : src \in Sources}
    \cup {[filepath |-> <<>>, remove_from_path |-> <<>>, code |-> NoCode, module |-> <<>>],
          [filepath |-> <<"d", "/", "a", ".", "p", "y">>, remove_from_path |-> <<>>, code |-> NoCode, module |-> <<>>],
          [filepath |-> <<"d">>, remove_from_path |-> <<>>, code |-> NoCode, module |-> <<>>]}

\* a fold threshold some signatures of the sources exceed
FoldSmall == 8

\* every option set
config_all ==
    [bound_objects |-> TRUE,
     fold_args_after |-> FoldSmall,
     show_private |-> TRUE,
     split_by |-> <<"m", "f", "c">>,
     with_linenos |-> TRUE]

\* the configurations passed to render
Configs ==
    {config_0,
     config_all,
     [config_0 EXCEPT !.bound_objects = TRUE],
     [config_0 EXCEPT !.fold_args_after = FoldSmall],
     [config_0 EXCEPT !.show_private = TRUE],
     [config_0 EXCEPT !.split_by = <<"m">>],
     [config_0 EXCEPT !.split_by = <<"m", "f", "c">>, !.show_private = TRUE],
     [config_0 EXCEPT !.with_linenos = TRUE]}

Unset == [set |-> FALSE, val |-> ""]
SetTo(v) == [set |-> TRUE, val |-> v]

\* the environments of the process: no variable set, every variable set
Envs ==
    {[ASTDOCS_BOUND_OBJECTS |-> Unset, ASTDOCS_FOLD_ARGS_AFTER |-> Unset, ASTDOCS_SHOW_PRIVATE |-> Unset,
      ASTDOCS_SPLIT_BY |-> Unset, ASTDOCS_WITH_LINENOS |-> Unset],
     [ASTDOCS_BOUND_OBJECTS |-> SetTo("yes"), ASTDOCS_FOLD_ARGS_AFTER |-> SetTo(FoldSmall), ASTDOCS_SHOW_PRIVATE |-> SetTo("on"),
      ASTDOCS_SPLIT_BY |-> SetTo(<<"m", "f", "c">>), ASTDOCS_WITH_LINENOS |-> SetTo("1")]}

-----------------------------------------------------------------------------
(* The process: the module is loaded, then render is called any number of  *)
(* times; _update_configuration may be called in between.                  *)

MaxCalls == 2

\* call is the last render call made: its arguments, and the module-level
\* configuration at the time (defaults)
NoCall ==
    [filepath |-> <<>>, remove_from_path |-> <<>>, code |-> NoCode, module |-> <<>>,
     config |-> config_0, defaults |-> config_0]

\* classes = {}, functions = {}, imports = {}
NoRegistries == [classes |-> <<>>, functions |-> <<>>, imports |-> <<>>]

Init ==
    /\ TPL_CLASSDEF = TPL_CLASSDEF_0
    /\ TPL_FUNCTIONDEF = TPL_FUNCTIONDEF_0
    /\ TPL_MODULE = TPL_MODULE_0
    /\ config = config_0
    /\ objects = <<>>
    /\ call = NoCall
    /\ ret = [result |-> "none", text |-> <<>>]
    /\ classes = <<>>
    /\ functions = <<>>
    /\ parsed = [classes |-> <<>>, functions |-> <<>>]
    /\ ncalls = 0
    /\ parse_defaults = NoRegistries

\* config = _update_configuration()
UpdateConfiguration(env) ==
    /\ config' = update_configuration(env)
    /\ UNCHANGED <<TPL_CLASSDEF, TPL_FUNCTIONDEF, TPL_MODULE, objects, call, ret, classes, functions, parsed, ncalls, parse_defaults>>

\* render(filepath, remove_from_path, code, module, config=cfg)
Render(c, cfg) ==
    /\ ncalls < MaxCalls
    /\ \E t \in {update_templates([c |-> TPL_CLASSDEF, f |-> TPL_FUNCTIONDEF, m |-> TPL_MODULE], cfg)} :
       \E r \in {render(t, objects, Files, c.filepath, c.remove_from_path, c.code, c.module, cfg)} :
           /\ TPL_CLASSDEF' = t.c
           /\ TPL_FUNCTIONDEF' = t.f
           /\ TPL_MODULE' = t.m
           /\ objects' = r.objects
           /\ call' = [filepath |-> c.filepath, remove_from_path |-> c.remove_from_path, code |-> c.code,
                       module |-> c.module, config |-> cfg, defaults |-> config]
           /\ ret' = [result |-> r.result, text |-> r.text]
           /\ classes' = r.classes
           /\ functions' = r.functions
           /\ parsed' = r.parsed
    /\ ncalls' = ncalls + 1
    /\ UNCHANGED <<config, parse_defaults>>

Next ==
    \/ \E env \in Envs : UpdateConfiguration(env)
    \/ \E c \in Calls, cfg \in Configs : Render(c, cfg)

Spec == Init /\ [][Next]_vars

-----------------------------------------------------------------------------
(* format_docstring on its own: docstrings holding fenced blocks.          *)

\* the most fenced blocks a docstring holds
MaxBlocks == 11

\* n backquotes
RECURSIVE Fence(_)
Fence(n) == IF n = 0 THEN <<>> ELSE <<BT>> \o Fence(n - 1)

\* what a block holds: one line, a blank line, or a fence with fewer backquotes
Inners == {"plain", "blank", "nested"}

\* the i-th block of a docstring, delimited by n backquotes
Block(i, n, inner) ==
    Fence(n)
    \o (CASE inner = "plain" -> <<"b">> \o Str(i)
          [] inner = "blank" -> <<"b", NL, NL>> \o Str(i)
          [] inner = "nested" -> IF n > 3
                                 THEN <<"b", NL>> \o Fence(3) \o <<NL, "x", NL>> \o Fence(3) \o <<NL>> \o Str(i)
                                 ELSE <<"b", BT, "x", BT>> \o Str(i))
    \o Fence(n)

\* what separates the blocks
Seps == {<<NL, NL>>, <<SP>>, <<NL>>}

\* a docstring: a word, then nb blocks, a separator before each
Docstring(nb, n, sep, inner) ==
    <<"T">> \o Concat([i \in 1..nb |-> sep \o Block(i - 1, n, inner)])

\* docstrings with entries:
\*   1. a typed entry after a blank line
\*   2. a typed entry on the first line
\*   3. a type with brackets, a comma, a dot and a pipe
\*   4. an untyped entry, then two typed ones
\*   5. a section, then a typed entry
EntryDocs ==
    {<<"T", NL, NL, "a", SP, ":", SP, "i", "n", "t", NL, SP, SP, SP, SP, "d", "e", "s", "c">>,
     <<"a", SP, ":", SP, "i", "n", "t", NL, SP, SP, "d", "e", "s", "c", NL, "z", "z">>,
     <<"T", NL, NL, "x", SP, ":", SP, "l", "i", "s", "t", "[", "a", ".", "b", ",", SP, "c", "]", SP, "|", SP, "d", NL, SP, SP, "d", "e", "s", "c">>,
     <<"T", NL, NL, "n", NL, SP, SP, "d", NL, "a", SP, ":", SP, "i", "n", "t", NL, SP, SP, "e", NL, "b", SP, ":", SP, "s", "t", "r", NL, SP, SP, "f">>,
     <<"T", NL, NL, "P", "a", "r", "a", "m", "e", "t", "e", "r", "s", NL, "-", "-", "-", "-", "-", "-", "-", "-", "-", "-", NL, "a", SP, ":", SP, "i", "n", "t", NL, SP, SP, SP, SP, "d", "e", "s", "c">>}

Docstrings ==
    {Docstring(nb, n, sep, inner) : nb \in 0..MaxBlocks, n \in 3..MaxFence, sep \in Seps, inner \in Inners}
    \cup EntryDocs

InitDoc ==
    /\ TPL_CLASSDEF = TPL_CLASSDEF_0
    /\ TPL_FUNCTIONDEF = TPL_FUNCTIONDEF_0
    /\ TPL_MODULE = TPL_MODULE_0
    /\ config = config_0
    /\ objects = <<>>
    /\ \E d \in Docstrings : call = [doc |-> d]
    /\ ret = [result |-> "none", text |-> <<>>]
    /\ classes = <<>>
    /\ functions = <<>>
    /\ parsed = [classes |-> <<>>, functions |-> <<>>]
    /\ ncalls = 0
    /\ parse_defaults = NoRegistries

\* format_docstring(node), for a node whose docstring is call.doc
FormatDocstring ==
    /\ ret.result = "none"
    /\ ret' = [result |-> "return", text |-> format_docstring(call.doc)]
    /\ UNCHANGED <<TPL_CLASSDEF, TPL_FUNCTIONDEF, TPL_MODULE, config, objects, call, classes, functions, parsed, ncalls, parse_defaults>>

NextDoc == FormatDocstring

SpecDoc == InitDoc /\ [][NextDoc]_vars

-----------------------------------------------------------------------------
(* render on sources that exercise the tree walk: nested definitions,      *)
(* redefinitions, compound statements, imports, parameters of every kind.  *)

\* class S:
\*     def k(xself, a): pass
\*     def j(a, selfy): pass
\*     def m(self, a): pass
SourceStatic ==
    Module(<<>>,
        << ClassDef(<<"S">>, <<>>, <<>>,
               << FunctionDef(<<"k">>, Positional(<<arg(<<"x", "s", "e", "l", "f">>, None), arg(<<"a">>, None)>>), None, <<>>, <<>>, <<Pass>>, 2, 2),
                  FunctionDef(<<"j">>, Positional(<<arg(<<"a">>, None), arg(<<"s", "e", "l", "f", "y">>, None)>>), None, <<>>, <<>>, <<Pass>>, 3, 3),
                  FunctionDef(<<"m">>, Positional(<<arg(SELF, None), arg(<<"a">>, None)>>), None, <<>>, <<>>, <<Pass>>, 4, 4) >>,
               1, 4) >>)

\* def f(a):
\*     """D1."""
\*     def g(): pass
\* class K:
\*     class L:
\*         def n(self): pass
\*     def f(self): pass
\* def f():
\*     """D2."""
SourceNested ==
    Module(<<>>,
        << FunctionDef(<<"f">>, Positional(<<arg(<<"a">>, None)>>), None, <<>>, <<"D", "1", ".">>,
               << FunctionDef(<<"g">>, NoArgs, None, <<>>, <<>>, <<Pass>>, 3, 3) >>, 1, 3),
           ClassDef(<<"K">>, <<>>, <<>>,
               << ClassDef(<<"L">>, <<>>, <<>>,
                      << FunctionDef(<<"n">>, Positional(<<arg(SELF, None)>>), None, <<>>, <<>>, <<Pass>>, 6, 6) >>, 5, 6),
                  FunctionDef(<<"f">>, Positional(<<arg(SELF, None)>>), None, <<>>, <<>>, <<Pass>>, 7, 7) >>,
               4, 7),
           FunctionDef(<<"f">>, NoArgs, None, <<>>, <<"D", "2", ".">>, <<Pass>>, 8, 9) >>)

\* if x:
\*     def g(): pass
\* class B:
\*     if x:
\*         def m(self): pass
\*     def k(self): pass
SourceIf ==
    Module(<<>>,
        << If(<< FunctionDef(<<"g">>, NoArgs, None, <<>>, <<>>, <<Pass>>, 2, 2) >>),
           ClassDef(<<"B">>, <<>>, <<>>,
               << If(<< FunctionDef(<<"m">>, Positional(<<arg(SELF, None)>>), None, <<>>, <<>>, <<Pass>>, 5, 5) >>),
                  FunctionDef(<<"k">>, Positional(<<arg(SELF, None)>>), None, <<>>, <<>>, <<Pass>>, 6, 6) >>,
               3, 6) >>)

\* import os
\* import numpy as np
\* from a.b import c, d as e
\* from . import x
\* from ..p import *
\* def f():
\*     """Df."""
\*     import sys
\* class K:
\*     from q import r
SourceImports ==
    Module(<<>>,
        << Import(<<alias(<<"o", "s">>, <<>>)>>),
           Import(<<alias(<<"n", "u", "m", "p", "y">>, <<"n", "p">>)>>),
           ImportFrom(<<"a", ".", "b">>, <<alias(<<"c">>, <<>>), alias(<<"d">>, <<"e">>)>>, 0),
           ImportFrom(<<>>, <<alias(<<"x">>, <<>>)>>, 1),
           ImportFrom(<<"p">>, <<alias(<<"*">>, <<>>)>>, 2),
           FunctionDef(<<"f">>, NoArgs, None, <<>>, <<"D", "f", ".">>,
               << Import(<<alias(<<"s", "y", "s">>, <<>>)>>) >>, 6, 8),
           ClassDef(<<"K">>, <<>>, <<>>,
               << ImportFrom(<<"q">>, <<alias(<<"r">>, <<>>)>>, 0) >>, 9, 10) >>)

\* def f(a, b=1, *c, d, e: t = 2, **g): pass
\* def p(a, /, b): pass
SourceParams ==
    Module(<<>>,
        << FunctionDef(<<"f">>,
               arguments(<<arg(<<"a">>, None), arg(<<"b">>, None)>>, <<ConstantInt(1)>>, arg(<<"c">>, None),
                         <<arg(<<"d">>, None), arg(<<"e">>, Name(<<"t">>))>>, <<None, ConstantInt(2)>>, arg(<<"g">>, None)),
               None, <<>>, <<>>, <<Pass>>, 1, 1),
           FunctionDef(<<"p">>, posonly(<<arg(<<"a">>, None)>>, <<arg(<<"b">>, None)>>), None, <<>>, <<>>, <<Pass>>, 2, 2) >>)

TreeSources == {SourcePlain, SourceStatic, SourceNested, SourceIf, SourceImports, SourceParams}

TreeCalls ==
    {[filepath |-> <<>>, remove_from_path |-> <<>>, code |-> src, module |-> m] :
        src \in TreeSources, m \in {<<"m">>, <<"d", ".", "a">>}}

TreeConfigs == {config_0, [config_0 EXCEPT !.fold_args_after = FoldSmall], config_all}

NextTree == \E c \in TreeCalls, cfg \in TreeConfigs : Render(c, cfg)

SpecTree == Init /\ [][NextTree]_vars

-----------------------------------------------------------------------------
(* parse_annotation on its own, for the expressions of an annotation or of *)
(* a decorator.                                                            *)

\* a, b, 1, "q", None
AnnLeaves == {Name(<<"a">>), Name(<<"b">>), ConstantInt(1), ConstantStr(<<"q">>), ConstantNone}

\* lambda: 0, -1, *a, and no node at all
AnnUnhandled == {Lambda, UnaryOp(ConstantInt(1)), Starred(Name(<<"a">>)), None}

AnnAtoms == AnnLeaves \cup AnnUnhandled

\* the sequences of at most MaxElts expressions of S
MaxElts == 2
EltsOf(S) == UNION {[1..n -> S] : n \in 0..MaxElts}

\* f(), f(k=x), f(k=x, j=y), f(x), f(x, k=y), f(**x), f(k=x, **y)
AnnCalls(S) ==
    LET f == Name(<<"f">>)
    IN  {Call(f, <<>>, <<>>)}
        \cup {Call(f, <<>>, <<Keyword(<<"k">>, x)>>) : x \in S}
        \cup {Call(f, <<>>, <<Keyword(<<"k">>, x), Keyword(<<"j">>, y)>>) : x \in S, y \in S}
        \cup {Call(f, <<x>>, <<>>) : x \in S}
        \cup {Call(f, <<x>>, <<Keyword(<<"k">>, y)>>) : x \in S, y \in S}
        \cup {Call(f, <<>>, <<DoubleStar(x)>>) : x \in S}
        \cup {Call(f, <<>>, <<Keyword(<<"k">>, x), DoubleStar(y)>>) : x \in S, y \in S}

\* the expressions with a handled node on top of expressions of S
AnnOver(S) ==
    {Attribute(x, <<"c">>) : x \in S}
    \cup {BinOp(x, y) : x \in S, y \in S}
    \cup AnnCalls(S)
    \cup {Dict(<<>>, <<>>)} \cup {Dict(<<x>>, <<y>>) : x \in S, y \in S}
    \cup {List(e) : e \in EltsOf(S)}
    \cup {Set(e) : e \in EltsOf(S) \ {<<>>}}
    \cup {Tuple(e) : e \in EltsOf(S)}
    \cup {Subscript(x, y) : x \in S, y \in S}

\* deeper ones: a | (b | c), (a | b) | c, a[b, c], a[b,], a[()], a[b | c],
\* a.c[b], [(a,)], [(a, b)], {a: (b,)}, a.c.c, f(k=[a]), f(k=[-1]), a.c(k=b),
\* @d(including=parameter, and_with=another), (a | b).c, a[[-1]], (a | b)[c]
AnnDeep ==
    LET a == Name(<<"a">>)
        b == Name(<<"b">>)
        c == Name(<<"c">>)
    IN  {BinOp(a, BinOp(b, c)), BinOp(BinOp(a, b), c),
         Subscript(a, Tuple(<<b, c>>)), Subscript(a, Tuple(<<b>>)), Subscript(a, Tuple(<<>>)),
         Subscript(a, BinOp(b, c)), Subscript(Attribute(a, <<"c">>), b),
         List(<<Tuple(<<a>>)>>), List(<<Tuple(<<a, b>>)>>), Dict(<<a>>, <<Tuple(<<b>>)>>),
         Attribute(Attribute(a, <<"c">>), <<"c">>),
         Call(Name(<<"f">>), <<>>, <<Keyword(<<"k">>, List(<<a>>))>>),
         Call(Name(<<"f">>), <<>>, <<Keyword(<<"k">>, List(<<UnaryOp(ConstantInt(1))>>))>>),
         Call(Attribute(a, <<"c">>), <<>>, <<Keyword(<<"k">>, b)>>),
         Call(Name(<<"d">>), <<>>, <<Keyword(<<"i", "n">>, Name(<<"p">>)), Keyword(<<"a", "n", "d">>, Name(<<"o">>))>>),
         Attribute(BinOp(a, b), <<"c">>), Subscript(a, List(<<List(<<UnaryOp(ConstantInt(1))>>)>>)),
         Subscript(BinOp(a, b), c)}

AnnExprs == AnnAtoms \cup AnnOver(AnnAtoms) \cup AnnDeep

InitAnn ==
    /\ TPL_CLASSDEF = TPL_CLASSDEF_0
    /\ TPL_FUNCTIONDEF = TPL_FUNCTIONDEF_0
    /\ TPL_MODULE = TPL_MODULE_0
    /\ config = config_0
    /\ objects = <<>>
    /\ \E e \in AnnExprs : call = [a |-> e]
    /\ ret = [result |-> "none", text |-> <<>>]
    /\ classes = <<>>
    /\ functions = <<>>
    /\ parsed = [classes |-> <<>>, functions |-> <<>>]
    /\ ncalls = 0
    /\ parse_defaults = NoRegistries

\* parse_annotation(a), for the node call.a
ParseAnnotation ==
    /\ ret.result = "none"
    /\ ret' = [result |-> "return", text |-> parse_annotation(call.a)]
    /\ UNCHANGED <<TPL_CLASSDEF, TPL_FUNCTIONDEF, TPL_MODULE, config, objects, call, classes, functions, parsed, ncalls, parse_defaults>>

NextAnn == ParseAnnotation

SpecAnn == InitAnn /\ [][NextAnn]_vars

-----------------------------------------------------------------------------
(* render on every combination of its arguments: a path that leads to a    *)
(* file, to a directory, to nothing or to a text that is not Python; a     *)
(* part to remove from the path; a source text, valid or not; a module     *)
(* name.                                                                   *)

ArgPaths ==
    {<<>>, <<"a", ".", "p", "y">>, <<"d", "/", "a", ".", "p", "y">>, <<"d">>, <<"x", ".", "p", "y">>, <<"s", ".", "p", "y">>}

ArgCalls ==
    {[filepath |-> fp, remove_from_path |-> rm, code |-> src, module |-> m] :
        fp \in ArgPaths, rm \in {<<>>, <<"d", "/">>},
        src \in {NoCode, SourcePlain, [kind |-> "invalid"]}, m \in {<<>>, <<"m">>}}

ArgConfigs == {config_0, config_all}

NextArgs == \E c \in ArgCalls, cfg \in ArgConfigs : Render(c, cfg)

SpecArgs == Init /\ [][NextArgs]_vars

-----------------------------------------------------------------------------
(* render_recursively.                                                     *)

\* the characters of the paths, in the order of their code points
CodePoints == <<".", "/", "B", "_", "a", "b", "c", "d", "e", "h", "i", "n", "p", "s", "t", "u", "x", "y">>
Ord(c) == CHOOSE i \in 1..Len(CodePoints) : CodePoints[i] = c

\* p < q, for two strings
RECURSIVE Before(_, _)
Before(p, q) ==
    IF q = <<>> THEN FALSE
    ELSE IF p = <<>> THEN TRUE
    ELSE IF p[1] # q[1] THEN Ord(p[1]) < Ord(q[1])
    ELSE Before(Tail(p), Tail(q))

\* the paths as glob returned them
SortedKept(ps) == ps

\* sorted(ps)
RECURSIVE Sorted(_)
Sorted(ps) ==
    IF ps = <<>> THEN <<>>
    ELSE Let(CHOOSE i \in 1..Len(ps) : \A j \in 1..Len(ps) : ~Before(ps[j], ps[i]), LAMBDA i :
             <<ps[i]>> \o Sorted(SubSeq(ps, 1, i - 1) \o SubSeq(ps, i + 1, Len(ps))))

\* glob.glob(f"{path}/**/*.py", recursive=True): the paths under path whose
\* last part ends with .py and does not start with a dot, in the order the
\* file system lists them
Glob(files, path) ==
    SelectSeq(DKeys(files), LAMBDA f :
        /\ StartsWith(f, path \o <<"/">>)
        /\ Len(LastPart(f, "/")) > Len(PY)
        /\ SubSeq(f, Len(f) - Len(PY) + 1, Len(f)) = PY
        /\ LastPart(f, "/")[1] # ".")

\* not name.startswith("_") or config["show_private"] or name == "__init__.py"
Rendered(name, cfg) == ~StartsWith(name, <<"_">>) \/ cfg.show_private \/ name = INIT \o PY

\* the loop "render each module" over the paths fps, from the i-th on; a render
\* call that raises ends it; acc = [result, t, objects, ms, classes, functions, parsed]
RECURSIVE RenderEach(_, _, _, _, _, _)
RenderEach(files, fps, i, remove_from_path, cfg, acc) ==
    IF i > Len(fps) \/ acc.result = "raise" THEN acc
    ELSE IF ~Rendered(LastPart(fps[i], "/"), cfg)
    THEN RenderEach(files, fps, i + 1, remove_from_path, cfg, acc)
    ELSE Let(update_templates(acc.t, cfg), LAMBDA t :
         Let(render(t, acc.objects, files, fps[i], remove_from_path, NoCode, <<>>, cfg), LAMBDA r :
             RenderEach(files, fps, i + 1, remove_from_path, cfg,
                        [result |-> r.result, t |-> t, objects |-> r.objects,
                         ms |-> IF r.result = "return" THEN Append(acc.ms, r.text) ELSE acc.ms,
                         classes |-> r.classes, functions |-> r.functions, parsed |-> r.parsed])))

\* returns [result, text, t, objects, classes, functions, parsed], t the templates
render_recursively(t, objs, files, path, remove_from_path, cfg) ==
    Let(RenderEach(files, Sorted(Glob(files, path)), 1, remove_from_path, cfg,
                   [result |-> "return", t |-> t, objects |-> objs, ms |-> <<>>,
                    classes |-> <<>>, functions |-> <<>>, parsed |-> [classes |-> <<>>, functions |-> <<>>]]), LAMBDA a :
        [result |-> a.result,
         text |-> IF a.result = "return" THEN CleanupMarkers(Join(a.ms, <<NL, NL>>), 1) ELSE <<>>,
         t |-> a.t, objects |-> a.objects, classes |-> a.classes, functions |-> a.functions, parsed |-> a.parsed])

\* def <name>():
\*     """<doc>"""
OneFunction(name, doc) ==
    Module(<<>>, << FunctionDef(name, NoArgs, None, <<>>, doc, <<Pass>>, 1, 2) >>)

\* the file system, in the order it lists its entries:
\*   d/b.py  d/a.py  d/sub/c.py  d/_h.py  d/__init__.py  d/B.py  d/n.txt  d/sub
\*   e/a.py  e/s.py (not Python)
RecFiles ==
    << << <<"d">>, [kind |-> "dir"] >>,
       << <<"d", "/", "b", ".", "p", "y">>, OneFunction(<<"f", "b">>, <<"B", ".">>) >>,
       << <<"d", "/", "a", ".", "p", "y">>, OneFunction(<<"f", "a">>, <<"A", ".">>) >>,
       << <<"d", "/", "s", "u", "b">>, [kind |-> "dir"] >>,
       << <<"d", "/", "s", "u", "b", "/", "c", ".", "p", "y">>, OneFunction(<<"f", "c">>, <<>>) >>,
       << <<"d", "/", "_", "h", ".", "p", "y">>, OneFunction(<<"f", "h">>, <<"H", ".">>) >>,
       << <<"d", "/">> \o INIT \o PY, Module(<<"I", ".">>, <<>>) >>,
       << <<"d", "/", "B", ".", "p", "y">>, OneFunction(<<"f", "z">>, <<>>) >>,
       << <<"d", "/", "n", ".", "t", "x", "t">>, [kind |-> "invalid"] >>,
       << <<"e">>, [kind |-> "dir"] >>,
       << <<"e", "/", "a", ".", "p", "y">>, OneFunction(<<"f", "a">>, <<>>) >>,
       << <<"e", "/", "s", ".", "p", "y">>, [kind |-> "invalid"] >> >>

RecPaths == {<<"d">>, <<"d", "/", "s", "u", "b">>, <<"e">>, <<"x">>}

RecConfigs ==
    {config_0,
     config_all,
     [config_0 EXCEPT !.show_private = TRUE],
     [config_0 EXCEPT !.split_by = <<"m">>],
     [config_0 EXCEPT !.bound_objects = TRUE]}

\* render_recursively(path, remove_from_path, config=cfg)
RenderRecursively(path, remove_from_path, cfg) ==
    /\ ncalls < MaxCalls
    /\ \E r \in {render_recursively([c |-> TPL_CLASSDEF, f |-> TPL_FUNCTIONDEF, m |-> TPL_MODULE], objects,
                                     RecFiles, path, remove_from_path, cfg)} :
           /\ TPL_CLASSDEF' = r.t.c
           /\ TPL_FUNCTIONDEF' = r.t.f
           /\ TPL_MODULE' = r.t.m
           /\ objects' = r.objects
           /\ call' = [filepath |-> path, remove_from_path |-> remove_from_path, code |-> NoCode,
                       module |-> <<>>, config |-> cfg, defaults |-> config]
           /\ ret' = [result |-> r.result, text |-> r.text]
           /\ classes' = r.classes
           /\ functions' = r.functions
           /\ parsed' = r.parsed
    /\ ncalls' = ncalls + 1
    /\ UNCHANGED <<config, parse_defaults>>

NextRec == \E path \in RecPaths, rm \in {<<>>, <<"d", "/">>}, cfg \in RecConfigs : RenderRecursively(path, rm, cfg)

SpecRec == Init /\ [][NextRec]_vars

-----------------------------------------------------------------------------
(* parse called by itself, without registries: classes, functions and      *)
(* imports take their default values, three dictionaries made once, when   *)
(* parse is defined, and written in place by parse_class and               *)
(* parse_function.                                                         *)

\* {"classes": {}, "functions": {}, "imports": {}}
NoObjects == [classes |-> <<>>, functions |-> <<>>, imports |-> <<>>]

\* parse(node, module, module), with the objects objs and the default
\* dictionaries d at the time; returns [result, registries, objects].
\* objects[module] is written before the registries are: without an entry of
\* the module, the first definition or import met raises KeyError and leaves
\* everything as it was.
parse_alone(node, module, objs, d) ==
    Let(DHas(objs, module), LAMBDA known :
    Let(parse(node, 1, module, module,
              [classes |-> d.classes, functions |-> d.functions, imports |-> d.imports,
               objects |-> IF known THEN objs ELSE DPut(objs, module, NoObjects)],
              config), LAMBDA p :
        IF ~known /\ DGet(p.objects, module) # NoObjects
        THEN [result |-> "raise", registries |-> d, objects |-> objs]
        ELSE [result |-> "return",
              registries |-> [classes |-> p.classes, functions |-> p.functions, imports |-> p.imports],
              objects |-> IF known THEN p.objects ELSE objs]))

\* pass
SourceEmpty == Module(<<>>, <<Pass>>)

ParseTrees ==
    {OneFunction(<<"f">>, <<"F", ".">>), OneFunction(<<"g">>, <<"G", ".">>), SourcePrivate, SourceEmpty}

ParseModules == {<<"m">>, <<"n">>}

\* the render calls that come before: they make the entries of objects
ParseCalls ==
    {[filepath |-> <<>>, remove_from_path |-> <<>>, code |-> OneFunction(<<"f">>, <<"F", ".">>), module |-> m] :
        m \in ParseModules}

\* classes, functions, imports = parse(node, module, module)
Parse(node, module) ==
    /\ ncalls < MaxCalls + 1
    /\ \E r \in {parse_alone(node, module, objects, parse_defaults)} :
           /\ objects' = r.objects
           /\ parse_defaults' = r.registries
           /\ parsed' = IF r.result = "return"
                        THEN [classes |-> r.registries.classes, functions |-> r.registries.functions]
                        ELSE [classes |-> <<>>, functions |-> <<>>]
           /\ ret' = [result |-> r.result, text |-> <<>>]
    /\ call' = [node |-> node, module |-> module]
    /\ ncalls' = ncalls + 1
    /\ UNCHANGED <<TPL_CLASSDEF, TPL_FUNCTIONDEF, TPL_MODULE, config, classes, functions>>

NextParse ==
    \/ \E c \in ParseCalls : Render(c, config_0)
    \/ \E node \in ParseTrees, module \in ParseModules : Parse(node, module)

SpecParse == Init /\ [][NextParse]_vars

-----------------------------------------------------------------------------
(* render_class and render_function called by themselves, on registries    *)
(* parse has made.  Both write into the registries they are given.         *)

ObjectTrees == {SourcePlain, SourceShort, SourceNested}

ObjectConfigs == {config_0, [config_0 EXCEPT !.show_private = TRUE], [config_0 EXCEPT !.with_linenos = TRUE]}

\* the state after objects["m"] = {...} and
\* classes, functions, imports = parse(n, "m", "m", {}, {}, {})
InitObjects ==
    /\ TPL_CLASSDEF = TPL_CLASSDEF_0
    /\ TPL_FUNCTIONDEF = TPL_FUNCTIONDEF_0
    /\ TPL_MODULE = TPL_MODULE_0
    /\ config = config_0
    /\ \E n \in ObjectTrees :
       \E p \in {parse(n, 1, <<"m">>, <<"m">>,
                        [classes |-> <<>>, functions |-> <<>>, imports |-> <<>>,
                         objects |-> ResetObjects(<<>>, <<"m">>)], config_0)} :
           /\ objects = p.objects
           /\ classes = p.classes
           /\ functions = p.functions
           /\ parsed = [classes |-> p.classes, functions |-> p.functions]
    /\ call = [function |-> "none"]
    /\ ret = [result |-> "none", text |-> <<>>]
    /\ ncalls = 0
    /\ parse_defaults = NoRegistries

\* render_class(filepath, name, classes, functions, cfg)
RenderClass(filepath, name, cfg) ==
    /\ ncalls < MaxCalls
    /\ DHas(classes, name)
    /\ \E r \in {render_class([c |-> TPL_CLASSDEF, f |-> TPL_FUNCTIONDEF, m |-> TPL_MODULE],
                               filepath, name, classes, functions, cfg)} :
           /\ classes' = r.classes
           /\ functions' = r.functions
           /\ ret' = [result |-> "return", text |-> r.text]
    /\ call' = [function |-> "render_class", filepath |-> filepath, name |-> name, config |-> cfg]
    /\ ncalls' = ncalls + 1
    /\ UNCHANGED <<TPL_CLASSDEF, TPL_FUNCTIONDEF, TPL_MODULE, config, objects, parsed, parse_defaults>>

\* render_function(filepath, name, functions, cfg); functions[name] missing:
\* KeyError
RenderFunction(filepath, name, cfg) ==
    /\ ncalls < MaxCalls
    /\ IF DHas(functions, name)
       THEN \E r \in {render_function([c |-> TPL_CLASSDEF, f |-> TPL_FUNCTIONDEF, m |-> TPL_MODULE],
                                       filepath, name, functions)} :
                /\ functions' = r.functions
                /\ ret' = [result |-> "return", text |-> r.text]
       ELSE /\ ret' = [result |-> "raise", text |-> <<>>]
            /\ UNCHANGED functions
    /\ call' = [function |-> "render_function", filepath |-> filepath, name |-> name, config |-> cfg]
    /\ ncalls' = ncalls + 1
    /\ UNCHANGED <<TPL_CLASSDEF, TPL_FUNCTIONDEF, TPL_MODULE, config, objects, classes, parsed, parse_defaults>>

NextObjects ==
    \/ \E i \in 1..Len(parsed.classes), cfg \in ObjectConfigs :
           RenderClass(<<"m">> \o PY, parsed.classes[i][1], cfg)
    \/ \E i \in 1..Len(parsed.functions), cfg \in ObjectConfigs :
           RenderFunction(<<"m">> \o PY, parsed.functions[i][1], cfg)

SpecObjects == InitObjects /\ [][NextObjects]_vars

-----------------------------------------------------------------------------
(* What the last render call was given, and what the properties below look *)
(* for in the text it returned.                                            *)

\* the path opened, the tree rendered, the name of its module and of its file
CallPath ==
    IF call.remove_from_path # <<>>
    THEN ReplaceAll(call.filepath, call.remove_from_path, <<>>) ELSE call.filepath

CallTree == IF call.filepath # <<>> THEN DGet(Files, CallPath) ELSE call.code

CallModule == IF call.filepath # <<>> THEN ModuleOf(CallPath) ELSE call.module

CallFile == IF call.filepath # <<>> THEN CallPath ELSE call.module \o PY

\* the last call rendered a tree and returned its page
Returned == ncalls > 0 /\ ret.result = "return" /\ CallTree.kind = "Module"

\* a local name starting with an underscore
Private(name) == name # <<>> /\ name[1] = "_"

\* the local names the configuration of the call shows
ShownName(name) == call.config.show_private \/ ~Private(name)

\* name.local
Dotted(name, local) == name \o <<".">> \o local

\* the text of the return annotation of a function
OutputOf(n) == IF n.returns # None THEN <<SP, "-", ">", SP>> \o parse_annotation(n.returns) ELSE <<>>

\* name(p1, p2, ..., pn) followed by the return annotation, on one line
OneLine(name, params, output) == name \o <<"(">> \o Join(params, <<",", SP>>) \o <<")">> \o output

\* the folded layout: name( on its own line, every parameter on its own line,
\* indented by four spaces and ending with a comma, the closing parenthesis on
\* its own line
FoldedCall(name, params, output) ==
    name \o <<"(", NL>>
    \o Concat([i \in 1..Len(params) |-> <<SP, SP, SP, SP>> \o params[i] \o <<",", NL>>])
    \o <<")">> \o output

\* a signature block
CodeBlock(sig) == <<BT, BT, BT, "python", NL>> \o sig \o <<NL, BT, BT, BT>>

\* the heading of the section of a class, function or method
Heading(name) == <<"#", SP, BT>> \o name \o <<BT>>

\* the bullet of a function or method (call_ = "()"), or of a class (call_ empty)
BulletOf(local, call_, name) ==
    <<"*", SP, "[", BT>> \o local \o call_ \o <<BT, "]", "(", "#">> \o Link(name) \o <<")">>

\* a text without its white space and commas
Squeeze(s) == SelectSeq(s, LAMBDA a : a \notin WhiteSpace \cup {","})

-----------------------------------------------------------------------------
(* Folding.                                                                *)

C1_Function(n) ==
    LET params == Params(n.args)
        one == OneLine(n.name, params, OutputOf(n))
    IN  Contains(ret.text,
                 CodeBlock((IF Len(one) > call.defaults.fold_args_after
                            THEN FoldedCall(n.name, params, OutputOf(n))
                            ELSE one) \o <<":">>))

\* C1: the signature block of every top-level function rendered is folded if and
\* only if name(p1, ..., pn) followed by the return annotation is longer than the
\* fold threshold parse_function is given; folded, it has name( on its own line,
\* every parameter on its own line, indented by four spaces and ending with a
\* comma, and the closing parenthesis on its own line; not folded, it is on one
\* line, the parameters separated by ", " with no trailing comma.
C1_FoldingLaw ==
    Returned =>
        \A i \in 1..Len(CallTree.body) :
            (CallTree.body[i].kind = "FunctionDef" /\ ShownName(CallTree.body[i].name))
                => C1_Function(CallTree.body[i])

C2_Method(c, n) ==
    LET params == Params(n.args)
        one == OneLine(n.name, params, OutputOf(n))
    IN  (Len(params) >= 2 /\ params[1] = SELF /\ Len(one) > call.defaults.fold_args_after) =>
            IF n.name = INIT
            THEN Contains(ret.text, CodeBlock(FoldedCall(c.name, Tail(params), <<>>)))
            ELSE ShownName(n.name) =>
                    Contains(ret.text, CodeBlock(FoldedCall(n.name, Tail(params), OutputOf(n)) \o <<":">>))

\* C2: the signature of every method, and of every constructor taken from
\* __init__, whose parameters parse_function folded keeps the folded layout once
\* self is removed: a line break after the opening parenthesis, every remaining
\* parameter on its own line, indented by four spaces and ending with a comma, the
\* closing parenthesis on its own line.
C2_FoldedMethods ==
    Returned =>
        \A i \in 1..Len(CallTree.body) :
            (CallTree.body[i].kind = "ClassDef" /\ ShownName(CallTree.body[i].name)) =>
                \A j \in 1..Len(CallTree.body[i].body) :
                    CallTree.body[i].body[j].kind = "FunctionDef"
                        => C2_Method(CallTree.body[i], CallTree.body[i].body[j])

-----------------------------------------------------------------------------
(* Constructors.                                                           *)

\* the definitions of __init__ in the body of a class
Inits(c) == SelectSeq(c.body, LAMBDA n : n.kind = "FunctionDef" /\ n.name = INIT)

\* the constructor block of class c, its signature holding the text p
ConstructorBlock(c, p) == CodeBlock(c.name \o <<"(">> \o p \o <<")">>)

C3_WithInit(c, q, init) ==
    LET p == DGet(classes, q).params
        rest == Tail(Params(init.args))
        docs == format_docstring(init.doc)
    IN  /\ ~DHas(functions, Dotted(q, INIT))
        /\ ~Contains(ret.text, BulletOf(INIT, <<"(", ")">>, Dotted(q, INIT)))
        /\ ~Contains(ret.text, Heading(Dotted(q, INIT)))
        /\ Squeeze(p) = Squeeze(Join(rest, <<",", SP>>))
        /\ Len(OneLine(INIT, Params(init.args), OutputOf(init))) <= call.defaults.fold_args_after
               => p = Join(rest, <<",", SP>>)
        /\ Contains(ret.text,
                    ConstructorBlock(c, p) \o (IF docs # <<>> THEN <<NL, NL>> \o docs ELSE <<>>))

C3_WithoutInit(c, q) ==
    /\ Contains(ret.text, ConstructorBlock(c, <<>>))
    /\ DGet(classes, q).constdocs = <<>>

C3_Class(c, q) ==
    IF Inits(c) # <<>>
    THEN Params(Inits(c)[1].args)[1] = SELF => C3_WithInit(c, q, Inits(c)[1])
    ELSE C3_WithoutInit(c, q)

\* C3: for every class rendered that defines __init__ itself, the entry
\* <class>.__init__ is gone from the function registry, __init__ is neither in the
\* Methods bullet list nor in the Methods section whatever show_private is, and the
\* constructor block reads ClassName(<the parameters of __init__ without self>),
\* followed by the formatted docstring of __init__; for a class without __init__
\* the block reads ClassName() and the constructor docstring is empty.
C3_ConstructorExtraction ==
    Returned =>
        \A i \in 1..Len(CallTree.body) :
            (CallTree.body[i].kind = "ClassDef" /\ ShownName(CallTree.body[i].name))
                => C3_Class(CallTree.body[i], Dotted(CallModule, CallTree.body[i].name))

\* C3 happens: a class with __init__ and a private method is rendered with
\* show_private set, the parameters of __init__ folded
C3_Witness ==
    /\ Returned
    /\ call.code = SourcePlain
    /\ call.config.show_private
    /\ call.defaults.fold_args_after = FoldSmall
    /\ Contains(ret.text, BulletOf(<<"_", "p">>, <<"(", ")">>, <<"m", ".", "C", ".", "_", "p">>))
    /\ Contains(ret.text, <<"C", "(", "a">>)

-----------------------------------------------------------------------------
(* Private objects.                                                        *)

\* a function or a method, a class: in a bullet list, heading a section
FunctionListed(local, name) == Contains(ret.text, BulletOf(local, <<"(", ")">>, name))
ClassListed(local, name) == Contains(ret.text, BulletOf(local, <<>>, name))
Headed(name) == Contains(ret.text, Heading(name))

\* the private methods of class c, __init__ apart
PrivateMethods(c) ==
    SelectSeq(c.body, LAMBDA n : n.kind = "FunctionDef" /\ Private(n.name) /\ n.name # INIT)

\* a module that holds private objects only
OnlyPrivate(tree) ==
    /\ \E i \in 1..Len(tree.body) : tree.body[i].kind \in {"FunctionDef", "ClassDef"}
    /\ \A i \in 1..Len(tree.body) : tree.body[i].kind \in {"FunctionDef", "ClassDef"} /\ Private(tree.body[i].name)

\* # Module `name`
ModuleHeading == <<"#", SP, "Module", SP, BT>> \o CallModule \o <<BT>>

\* the lines of a text, from index i on
RECURSIVE Lines(_, _)
Lines(s, i) ==
    <<SubSeq(s, i, LineEnd(s, i) - 1)>> \o (IF LineEnd(s, i) > Len(s) THEN <<>> ELSE Lines(s, LineEnd(s, i) + 1))

\* the lines of a text that are neither empty nor marker lines
Unmarked(s) == SelectSeq(Lines(s, 1), LAMBDA l : l # <<>> /\ l[1] # "%%%")

\* no private object of the tree is listed, none heads a section
C4_Hidden ==
    \A i \in 1..Len(CallTree.body) :
        /\ (CallTree.body[i].kind = "FunctionDef" /\ Private(CallTree.body[i].name)) =>
               /\ ~FunctionListed(CallTree.body[i].name, Dotted(CallModule, CallTree.body[i].name))
               /\ ~Headed(Dotted(CallModule, CallTree.body[i].name))
        /\ (CallTree.body[i].kind = "ClassDef" /\ Private(CallTree.body[i].name)) =>
               /\ ~ClassListed(CallTree.body[i].name, Dotted(CallModule, CallTree.body[i].name))
               /\ ~Headed(Dotted(CallModule, CallTree.body[i].name))
        /\ CallTree.body[i].kind = "ClassDef" =>
               \A j \in 1..Len(PrivateMethods(CallTree.body[i])) :
                   /\ ~FunctionListed(PrivateMethods(CallTree.body[i])[j].name,
                                      Dotted(Dotted(CallModule, CallTree.body[i].name), PrivateMethods(CallTree.body[i])[j].name))
                   /\ ~Headed(Dotted(Dotted(CallModule, CallTree.body[i].name), PrivateMethods(CallTree.body[i])[j].name))

\* every private object of the tree heads a section, and is listed: whatever
\* split_by is (always), or when split_by does not drop its list
C4_Visible(always) ==
    \A i \in 1..Len(CallTree.body) :
        /\ (CallTree.body[i].kind = "FunctionDef" /\ Private(CallTree.body[i].name)) =>
               /\ Headed(Dotted(CallModule, CallTree.body[i].name))
               /\ (always \/ ~Contains(call.config.split_by, <<"f">>))
                      => FunctionListed(CallTree.body[i].name, Dotted(CallModule, CallTree.body[i].name))
        /\ (CallTree.body[i].kind = "ClassDef" /\ Private(CallTree.body[i].name)) =>
               /\ Headed(Dotted(CallModule, CallTree.body[i].name))
               /\ (always \/ ~Contains(call.config.split_by, <<"c">>))
                      => ClassListed(CallTree.body[i].name, Dotted(CallModule, CallTree.body[i].name))
        /\ CallTree.body[i].kind = "ClassDef" =>
               \A j \in 1..Len(PrivateMethods(CallTree.body[i])) :
                   /\ FunctionListed(PrivateMethods(CallTree.body[i])[j].name,
                                     Dotted(Dotted(CallModule, CallTree.body[i].name), PrivateMethods(CallTree.body[i])[j].name))
                   /\ Headed(Dotted(Dotted(CallModule, CallTree.body[i].name), PrivateMethods(CallTree.body[i])[j].name))

\* C4 as stated: with show_private false no private function, class or method
\* (__init__ apart) is in a bullet list or heads a section, and a module holding
\* only private objects renders as exactly its # Module heading; with show_private
\* true every private function, class and method is in its bullet list and heads
\* its section.
C4_Visibility ==
    Returned =>
        IF ~call.config.show_private
        THEN C4_Hidden /\ (OnlyPrivate(CallTree) => ret.text = ModuleHeading)
        ELSE C4_Visible(TRUE)

\* C4, amended: with show_private false no private function, class or method
\* (__init__ apart) is in a bullet list or heads a section, and a module without
\* docstring holding only private objects renders as its # Module heading, alone
\* but for marker lines; with show_private true every private top-level function
\* and class and every private method of a top-level class heads its section, the
\* methods are in the Methods list of their class, and the functions and classes
\* are in the list of the module unless split_by holds f, respectively c.
C4_VisibilityAmended ==
    Returned =>
        IF ~call.config.show_private
        THEN C4_Hidden /\ ((OnlyPrivate(CallTree) /\ CallTree.doc = <<>>) => Unmarked(ret.text) = <<ModuleHeading>>)
        ELSE C4_Visible(FALSE)

\* C4 happens: a module of private objects only is rendered with show_private
\* unset and markers around its heading, and a class with a
\* private method is rendered with show_private set
C4_Witness ==
    /\ Returned
    /\ \/ /\ ~call.config.show_private
          /\ OnlyPrivate(CallTree)
          /\ Unmarked(ret.text) = <<ModuleHeading>>
          /\ ret.text # ModuleHeading
       \/ /\ call.config.show_private
          /\ call.code = SourcePlain
          /\ Headed(<<"m", ".", "C", ".", "_", "p">>)

-----------------------------------------------------------------------------
(* Fenced blocks.                                                          *)

\* the number of backquotes in a row from index i on
RunLen(s, i) == SpanWhile(s, i, {BT}) - i

\* the indices from p on where a row of at least n backquotes begins
Fences(s, p, n) ==
    {j \in p..Len(s) : s[j] = BT /\ (j = 1 \/ s[j - 1] # BT) /\ RunLen(s, j) >= n}

\* the fenced blocks of a text from index p on, in order: a block opens with a
\* row of three backquotes or more and closes with the next row as long
RECURSIVE FencedBlocks(_, _)
FencedBlocks(s, p) ==
    LET opens == Fences(s, p, 3)
        o == MinOf(opens)
        n == RunLen(s, o)
        closes == Fences(s, o + n, n)
        c == MinOf(closes)
    IN  IF opens = {} \/ closes = {} THEN <<>>
        ELSE <<SubSeq(s, o, c + n - 1)>> \o FencedBlocks(s, c + n)

\* C5: format_docstring preserves fenced blocks: the fenced blocks of the output
\* are those of the docstring, each with exactly its text and in the same order,
\* and no placeholder %%%BLOCKn is left in the output.
C5_FencedBlocksPreserved ==
    ret.result = "return" =>
        /\ FencedBlocks(ret.text, 1) = FencedBlocks(call.doc, 1)
        /\ \A i \in 1..Len(ret.text) : ret.text[i] # "%%%BLOCK"

-----------------------------------------------------------------------------
(* Markers.                                                                *)

\* the blocks of the page returned: the functions and classes at the root of the
\* module that the configuration shows, and the methods shown of these classes
TopIndices(kind) ==
    {i \in 1..Len(CallTree.body) : CallTree.body[i].kind = kind /\ ShownName(CallTree.body[i].name)}

MethodIndices(i) ==
    {j \in 1..Len(CallTree.body[i].body) :
        /\ CallTree.body[i].body[j].kind = "FunctionDef"
        /\ CallTree.body[i].body[j].name # INIT
        /\ ShownName(CallTree.body[i].body[j].name)}

InitIndices(i) ==
    {j \in 1..Len(CallTree.body[i].body) :
        CallTree.body[i].body[j].kind = "FunctionDef" /\ CallTree.body[i].body[j].name = INIT}

TopName(i) == Dotted(CallModule, CallTree.body[i].name)

MethodName(i, j) == Dotted(TopName(i), CallTree.body[i].body[j].name)

\* %%%WORD KIND name
Marker(word, kind, name) == <<"%%%", word, kind>> \o name

\* where p occurs in s
Occurrences(s, p) == {i \in 1..(Len(s) - Len(p) + 1) : MatchAt(s, i, p)}

\* p occurs in s once, and alone on its line
OnceAlone(s, p) ==
    /\ Cardinality(Occurrences(s, p)) = 1
    /\ \A i \in Occurrences(s, p) :
           /\ i = 1 \/ s[i - 1] = NL
           /\ i + Len(p) > Len(s) \/ s[i + Len(p)] = NL

\* the block headed by head has one BEGIN marker, alone on its line, before it
Begun(kind, name, head) ==
    /\ OnceAlone(ret.text, Marker("BEGIN", kind, name))
    /\ FindFrom(ret.text, 1, Marker("BEGIN", kind, name)) < FindFrom(ret.text, 1, head)

\* C6: with split_by holding m, c or f, the text returned by each call of a
\* sequence of render calls marks every module, class or function block
\* (respectively) with exactly one %%%BEGIN KIND qualified.name marker, alone on
\* its line at the head of the block.
C6_OneBeginMarker ==
    Returned =>
        /\ Contains(call.config.split_by, <<"m">>) => Begun(" MODULE ", CallModule, ModuleHeading)
        /\ Contains(call.config.split_by, <<"c">>) =>
               \A i \in TopIndices("ClassDef") : Begun(" CLASSDEF ", TopName(i), Heading(TopName(i)))
        /\ Contains(call.config.split_by, <<"f">>) =>
               /\ \A i \in TopIndices("FunctionDef") : Begun(" FUNCTIONDEF ", TopName(i), Heading(TopName(i)))
               /\ \A i \in TopIndices("ClassDef") : \A j \in MethodIndices(i) :
                      Begun(" FUNCTIONDEF ", MethodName(i, j), Heading(MethodName(i, j)))

\* where the block of a name starts and ends: its START marker on a line of its
\* own, its END marker on a line of its own after it (0: no such marker)
StartAt(kind, name) ==
    LET I == {i \in Occurrences(ret.text, Marker("START", kind, name) \o <<NL>>) : i = 1 \/ ret.text[i - 1] = NL}
    IN  IF I = {} THEN 0 ELSE MinOf(I)

EndAt(kind, name) ==
    LET p == <<NL>> \o Marker("END", kind, name)
        I == {i \in Occurrences(ret.text, p) : i + Len(p) > Len(ret.text) \/ ret.text[i + Len(p)] = NL}
    IN  IF I = {} THEN 0 ELSE MinOf(I)

\* the block headed by head starts with its START marker and ends with its END marker
Bound(kind, name, head) ==
    /\ StartAt(kind, name) # 0
    /\ EndAt(kind, name) # 0
    /\ StartAt(kind, name) < FindFrom(ret.text, 1, head)
    /\ FindFrom(ret.text, 1, head) < EndAt(kind, name)

\* C7: with bound_objects set, every module, class and function block of the text
\* returned starts with %%%START KIND name and ends with the matching %%%END KIND
\* name, the blocks of the methods inside the block of their class; with
\* bound_objects unset there is no %%%START and no %%%END marker; for every call of
\* a sequence of render calls with differing configurations.
C7_BoundMarkers ==
    Returned =>
        IF call.config.bound_objects
        THEN /\ Bound(" MODULE ", CallModule, ModuleHeading)
             /\ \A i \in TopIndices("FunctionDef") : Bound(" FUNCTIONDEF ", TopName(i), Heading(TopName(i)))
             /\ \A i \in TopIndices("ClassDef") :
                    /\ Bound(" CLASSDEF ", TopName(i), Heading(TopName(i)))
                    /\ \A j \in MethodIndices(i) :
                           /\ Bound(" FUNCTIONDEF ", MethodName(i, j), Heading(MethodName(i, j)))
                           /\ StartAt(" CLASSDEF ", TopName(i)) < StartAt(" FUNCTIONDEF ", MethodName(i, j))
                           /\ EndAt(" FUNCTIONDEF ", MethodName(i, j)) < EndAt(" CLASSDEF ", TopName(i))
        ELSE \A k \in 1..Len(ret.text) : ret.text[k] \notin {"START", "END"}

\* %%%SOURCE path:start:end, for the definition n
SourceOf(n) ==
    <<"%%%", "SOURCE", SP>> \o CallFile \o <<":">> \o Str(n.lineno) \o <<":">> \o Str(n.end_lineno)

\* C8: with with_linenos set, every function, method and class rendered, and every
\* constructor taken from __init__, carries one %%%SOURCE path:start:end marker
\* with the first and last line of its definition; with with_linenos unset there
\* is no %%%SOURCE marker; for every call of a sequence of render calls with
\* differing configurations.
C8_SourceMarkers ==
    Returned =>
        IF call.config.with_linenos
        THEN /\ \A i \in TopIndices("FunctionDef") : OnceAlone(ret.text, SourceOf(CallTree.body[i]))
             /\ \A i \in TopIndices("ClassDef") :
                    /\ OnceAlone(ret.text, SourceOf(CallTree.body[i]))
                    /\ \A j \in MethodIndices(i) \cup InitIndices(i) :
                           OnceAlone(ret.text, SourceOf(CallTree.body[i].body[j]))
        ELSE \A k \in 1..Len(ret.text) : ret.text[k] # "SOURCE"

-----------------------------------------------------------------------------
(* The configuration of a call.                                            *)

\* parameters saved folded end with a line break
Folded(params) == params # <<>> /\ params[Len(params)] = NL

C9_Function(n, e) ==
    /\ e.hashtags = (IF Contains(call.config.split_by, <<"f">>) THEN <<"#">> ELSE <<"#", "#", "#">>)
    /\ Folded(e.params) <=> Len(OneLine(n.name, Params(n.args), OutputOf(n))) > call.config.fold_args_after

C9_Class(n, e) ==
    e.hashtags = (IF Contains(call.config.split_by, <<"c">>) THEN <<"#">> ELSE <<"#", "#", "#">>)

\* C9: the configuration passed to a render call governs its parsing: for every
\* function and class at the root of the module, the signature is folded exactly
\* when it is longer than the fold threshold of the passed configuration, and the
\* heading level is the one the split_by of the passed configuration asks for.
C9_PassedConfigGoverns ==
    Returned =>
        \A i \in 1..Len(CallTree.body) :
            /\ CallTree.body[i].kind = "FunctionDef" =>
                   C9_Function(CallTree.body[i], DGet(parsed.functions, TopName(i)))
            /\ CallTree.body[i].kind = "ClassDef" =>
                   C9_Class(CallTree.body[i], DGet(parsed.classes, TopName(i)))

-----------------------------------------------------------------------------
(* Registries.                                                             *)

\* the qualified names of the definitions of one kind in a body, nested ones included
RECURSIVE Defined(_, _, _)
Defined(body, prefix, kind) ==
    UNION {IF body[i].kind \in {"FunctionDef", "ClassDef"}
           THEN (IF body[i].kind = kind THEN {Dotted(prefix, body[i].name)} ELSE {})
                \cup Defined(body[i].body, Dotted(prefix, body[i].name), kind)
           ELSE {} : i \in 1..Len(body)}

\* the keys of a dictionary, as a set
KeySet(d) == {d[i][1] : i \in 1..Len(d)}

\* the module names of the calls made
Modules == {<<"m">>, <<"d", ".", "a">>}

\* every name a call can define
AllDefined ==
    UNION {Defined(src.body, m, "FunctionDef") \cup Defined(src.body, m, "ClassDef") : src \in Sources, m \in Modules}

\* the names the source of the call defines
CallDefined == Defined(CallTree.body, CallModule, "FunctionDef") \cup Defined(CallTree.body, CallModule, "ClassDef")

\* C10: every render call builds its registries from empty: the classes and
\* functions parsed by a call are exactly those its source defines, those left
\* after rendering are among them, and no section of the text returned is headed
\* by a name that only the source of another call defines.
C10_FreshRegistries ==
    Returned =>
        /\ KeySet(parsed.functions) = Defined(CallTree.body, CallModule, "FunctionDef")
        /\ KeySet(parsed.classes) = Defined(CallTree.body, CallModule, "ClassDef")
        /\ KeySet(functions) \subseteq KeySet(parsed.functions)
        /\ KeySet(classes) = KeySet(parsed.classes)
        /\ \A q \in AllDefined \ CallDefined : ~Headed(q)

\* C10 happens: a second call renders a source that defines other names than the
\* source of the first, under the same module name
C10_Witness ==
    /\ Returned
    /\ ncalls = 2
    /\ call.code = SourceShort
    /\ \E i \in 1..Len(objects) : objects[i][1] = <<"d", ".", "a">>
    /\ KeySet(parsed.functions) = {<<"m", ".", "g">>, <<"m", ".", "h">>, <<"m", ".", "B", ".", "m">>}
    /\ Headed(<<"m", ".", "B", ".", "m">>)

-----------------------------------------------------------------------------
(* The first parameter of a method.                                        *)

\* the parameter text p begins with a parameter named exactly self
LeadingSelf(p) ==
    LET b == SpanWhile(p, 1, WhiteSpace)
    IN  /\ MatchAt(p, b, SELF)
        /\ (b + Len(SELF) > Len(p) \/ p[b + Len(SELF)] \in WhiteSpace \cup {","})

\* p without that parameter and its separator
WithoutSelf(p) ==
    IF LeadingSelf(p)
    THEN LET b == SpanWhile(p, 1, WhiteSpace)
         IN  SubSeq(p, 1, b - 1) \o SubSeq(p, SpanWhile(p, b + Len(SELF), WhiteSpace \cup {","}), Len(p))
    ELSE p

\* the methods parsed, constructors excepted, that the call shows
ShownMethods ==
    {f \in KeySet(parsed.functions) :
        /\ \E c \in KeySet(parsed.classes) : StartsWith(f, c \o <<".">>)
        /\ LastPart(f, ".") # INIT
        /\ ShownName(LastPart(f, "."))}

\* C11: render_class changes the parameters of a method or constructor only by
\* removing a first parameter named exactly self, with its separator: the
\* parameters rendered are those parsed without it (and without the white space
\* around them), whatever other names hold the letters self.
C11_OnlyLeadingSelf ==
    Returned =>
        /\ \A f \in ShownMethods \cap KeySet(functions) :
               DGet(functions, f).params = Strip(WithoutSelf(DGet(parsed.functions, f).params))
        /\ \A c \in KeySet(classes) :
               DHas(parsed.functions, Dotted(c, INIT)) =>
                   DGet(classes, c).params = Strip(WithoutSelf(DGet(parsed.functions, Dotted(c, INIT)).params))

-----------------------------------------------------------------------------
(* The definitions parse records.                                          *)

\* the definitions reachable through the bodies of classes and functions, in the
\* order of the source: [kind, name, node], name the qualified name
RECURSIVE DefList(_, _)
DefList(body, prefix) ==
    Concat([i \in 1..Len(body) |->
        IF body[i].kind \in {"FunctionDef", "ClassDef"}
        THEN <<[kind |-> body[i].kind, name |-> Dotted(prefix, body[i].name), node |-> body[i]]>>
             \o DefList(body[i].body, Dotted(prefix, body[i].name))
        ELSE <<>>])

\* the definitions of the source of the call
CallDefs == DefList(CallTree.body, CallModule)

\* the last definition of its kind and name among ds
LastDef(ds, d) ==
    ds[MaxOf({i \in 1..Len(ds) : ds[i].kind = d.kind /\ ds[i].name = d.name})].node

\* a qualified name without the name of the module of the call
LocalName(q) == SubSeq(q, Len(CallModule) + 2, Len(q))

\* the entry of the registries parse returned for the definition d, and the
\* dictionary of objects[module] that maps its local path
EntryOf(d) ==
    IF d.kind = "ClassDef" THEN DGet(parsed.classes, d.name) ELSE DGet(parsed.functions, d.name)

IndexOf(d) ==
    IF d.kind = "ClassDef" THEN DGet(objects, CallModule).classes ELSE DGet(objects, CallModule).functions

\* C12: parse records every class and function reachable through class and
\* function bodies under <ancestry>.<name>: the name is a key of the registry of
\* its kind, objects[module] maps its local dotted path to it, and the entry is
\* that of the last definition with this name.
C12_DefinitionsRecorded ==
    Returned =>
        \A i \in 1..Len(CallDefs) :
            LET d == CallDefs[i]
                last == LastDef(CallDefs, d)
            IN  /\ d.name \in KeySet(IF d.kind = "ClassDef" THEN parsed.classes ELSE parsed.functions)
                /\ DHas(IndexOf(d), LocalName(d.name))
                /\ DGet(IndexOf(d), LocalName(d.name)) = d.name
                /\ EntryOf(d).ancestry = SubSeq(d.name, 1, Len(d.name) - Len(last.name) - 1)
                /\ EntryOf(d).lineno = Str(last.lineno)
                /\ EntryOf(d).endlineno = Str(last.end_lineno)
                /\ (d.kind = "ClassDef" => EntryOf(d).classname = last.name /\ EntryOf(d).classdocs = format_docstring(last.doc))
                /\ (d.kind = "FunctionDef" => EntryOf(d).funcname = last.name /\ EntryOf(d).funcdocs = format_docstring(last.doc))

\* C12 happens: a source with a method of a class defined in a class, a function
\* defined in a function, and a function defined twice
C12_Witness ==
    /\ Returned
    /\ call.code = SourceNested
    /\ DGet(DGet(objects, <<"m">>).functions, <<"K", ".", "L", ".", "n">>) = <<"m", ".", "K", ".", "L", ".", "n">>
    /\ DHas(parsed.functions, <<"m", ".", "f", ".", "g">>)
    /\ DGet(parsed.functions, <<"m", ".", "f">>).funcdocs = <<"D", "2", ".">>

\* the definitions reachable through the body of every statement that has one,
\* those of compound statements included: a statement without a name leaves the
\* prefix as it is
RECURSIVE DefListAll(_, _)
DefListAll(body, prefix) ==
    Concat([i \in 1..Len(body) |->
        IF body[i].kind \in {"FunctionDef", "ClassDef"}
        THEN <<[kind |-> body[i].kind, name |-> Dotted(prefix, body[i].name), node |-> body[i]]>>
             \o DefListAll(body[i].body, Dotted(prefix, body[i].name))
        ELSE IF HasBody(body[i]) THEN DefListAll(body[i].body, prefix)
        ELSE <<>>])

\* C13: the walk enters the body of every compound statement: a class or a
\* function defined in an if, for, while, with or try block, at module level or
\* in a class, is recorded in the registry of its kind.
C13_CompoundBodies ==
    Returned =>
        \A i \in 1..Len(DefListAll(CallTree.body, CallModule)) :
            LET d == DefListAll(CallTree.body, CallModule)[i]
            IN  d.name \in KeySet(IF d.kind = "ClassDef" THEN parsed.classes ELSE parsed.functions)

-----------------------------------------------------------------------------
(* The index of objects.                                                   *)

\* the pairs of a dictionary, as a set
PairSet(d) == {<<d[i][1], d[i][2]>> : i \in 1..Len(d)}

\* the keys of the dictionary d are distinct
DistinctKeys(d) == \A i, j \in 1..Len(d) : d[i][1] = d[j][1] => i = j

\* the local paths of the names of a registry, each with the name
LocalPairs(registry) == {<<LocalName(q), q>> : q \in KeySet(registry)}

-----------------------------------------------------------------------------
(* Imports.                                                                *)

\* the names imported by the statements reachable through the bodies of classes
\* and functions, in the order of the source: [local, name, from, prefix], local
\* the alias if there is one, from the module of a from-import
RECURSIVE ImportList(_, _)
ImportList(body, prefix) ==
    Concat([i \in 1..Len(body) |->
        IF body[i].kind \in {"Import", "ImportFrom"}
        THEN [k \in 1..Len(body[i].names) |->
                 [local |-> IF body[i].names[k].asname # <<>> THEN body[i].names[k].asname ELSE body[i].names[k].name,
                  name |-> body[i].names[k].name,
                  from |-> IF body[i].kind = "ImportFrom" THEN body[i].module ELSE <<>>,
                  prefix |-> prefix]]
        ELSE IF body[i].kind \in {"FunctionDef", "ClassDef"}
        THEN ImportList(body[i].body, Dotted(prefix, body[i].name))
        ELSE <<>>])

\* a body without its import statements, nested ones included
RECURSIVE StripImports(_)
StripImports(body) ==
    LET kept == SelectSeq(body, LAMBDA n : n.kind \notin {"Import", "ImportFrom"})
    IN  [i \in 1..Len(kept) |->
            IF kept[i].kind \in {"FunctionDef", "ClassDef", "If"}
            THEN [kept[i] EXCEPT !.body = StripImports(kept[i].body)]
            ELSE kept[i]]

\* str.endswith
EndsWith(s, p) == Len(s) >= Len(p) /\ SubSeq(s, Len(s) - Len(p) + 1, Len(s)) = p

\* what render makes of the source of the call without its import statements,
\* under the templates and the configuration of the call
WithoutImports ==
    RenderTree([c |-> TPL_CLASSDEF, f |-> TPL_FUNCTIONDEF, m |-> TPL_MODULE], <<>>,
               [CallTree EXCEPT !.body = StripImports(CallTree.body)], CallFile, CallModule, call.config)

-----------------------------------------------------------------------------
(* Parameters.                                                             *)

\* a parameter as the source spells it: the name, the annotation and the default
\* value when there are any
Spelled(x, default) ==
    x.arg
    \o (IF x.annotation # None THEN <<":", SP>> \o parse_annotation(x.annotation) ELSE <<>>)
    \o (IF default # None THEN <<SP, "=", SP>> \o parse_annotation(default) ELSE <<>>)

\* the parameters a definition declares, in the order of the source: k defaults
\* go to the last k positional parameters
Declared(a) ==
    LET pos == a.posonlyargs \o a.args
        first == Len(pos) - Len(a.defaults)
    IN  [i \in 1..Len(pos) |-> Spelled(pos[i], IF i > first THEN a.defaults[i - first] ELSE None)]
        \o (IF a.vararg # None THEN << <<"*">> \o a.vararg.arg >> ELSE <<>>)
        \o [i \in 1..Len(a.kwonlyargs) |-> Spelled(a.kwonlyargs[i], a.kw_defaults[i])]
        \o (IF a.kwarg # None THEN << <<"*", "*">> \o a.kwarg.arg >> ELSE <<>>)

\* C16: the parameter text of a function lists every parameter it declares once
\* and in the order of the source (positional, *name, keyword-only, **name),
\* each default attached to the parameter that declares it.  Stated for the
\* signatures short enough to stay on one line.
C16_EveryParameter ==
    Returned =>
        \A i \in 1..Len(CallDefs) :
            (CallDefs[i].kind = "FunctionDef" /\ LastDef(CallDefs, CallDefs[i]) = CallDefs[i].node) =>
                LET n == CallDefs[i].node
                IN  Len(OneLine(n.name, Declared(n.args), OutputOf(n))) <= call.defaults.fold_args_after =>
                        DGet(parsed.functions, CallDefs[i].name).params = Join(Declared(n.args), <<",", SP>>)

-----------------------------------------------------------------------------
(* Entries of a docstring.                                                 *)

\* index of the " : " of the line that starts at index j, 0 when it has none
NameEnd(s, j) ==
    LET c == FindFrom(s, j, <<SP, ":", SP>>)
    IN  IF c # 0 /\ c < LineEnd(s, j) THEN c ELSE 0

\* the line that starts at index j is name : type, and the next line is indented
\* by two spaces or more
TypedEntry(s, j) ==
    LET e == LineEnd(s, j)
        c == NameEnd(s, j)
    IN  /\ j = 1 \/ s[j - 1] = NL
        /\ s[j] \in NameChars \ {SP}
        /\ c # 0 /\ c + 3 < e
        /\ \A k \in j..(c - 1) : s[k] \in NameChars
        /\ \A k \in (c + 3)..(e - 1) : s[k] \in TypeChars
        /\ e <= Len(s)
        /\ SpanWhile(s, e + 1, {SP}) - (e + 1) >= 2

\* the bullet line of the typed entry that starts at index j
TypedBullet(s, j) ==
    LET e == LineEnd(s, j)
        c == NameEnd(s, j)
        b == SpanWhile(s, e + 1, {SP})
    IN  <<"*", SP, BT>> \o SubSeq(s, j, c - 1) \o <<BT, SP, "[", BT>> \o SubSeq(s, c + 3, e - 1)
        \o <<BT, "]", ":", SP>> \o SubSeq(s, b, LineEnd(s, b) - 1)

\* the text holds the line l
HoldsLine(s, l) ==
    \E j \in 1..Len(s) :
        /\ j = 1 \/ s[j - 1] = NL
        /\ SubSeq(s, j, LineEnd(s, j) - 1) = l

\* C17: format_docstring turns every typed entry of a docstring without fenced
\* block (a line name : type followed by a line indented by two spaces or more),
\* wherever it stands, the first line included, into the bullet line
\* * `name` [`type`]: description.
C17_TypedEntries ==
    (ret.result = "return" /\ \A i \in 1..Len(call.doc) : call.doc[i] # BT) =>
        \A j \in 1..Len(call.doc) :
            TypedEntry(call.doc, j) => HoldsLine(ret.text, TypedBullet(call.doc, j))

-----------------------------------------------------------------------------
(* The text of an expression.                                              *)

\* the node kinds parse_annotation has a branch for
HandledKinds == {"Attribute", "BinOp", "Call", "Constant", "Dict", "List", "Name", "Subscript", "Set", "Tuple"}

RECURSIVE Blank(_)
\* the expression with every node of another kind, and every absent node,
\* replaced by a name that is the empty text
Blank(e) ==
    CASE e.kind = "Attribute" -> Attribute(Blank(e.value), e.attr)
      [] e.kind = "BinOp" -> BinOp(Blank(e.left), Blank(e.right))
      [] e.kind = "Call" ->
            Call(Blank(e.func), e.args,
                 [i \in 1..Len(e.keywords) |-> Keyword(e.keywords[i].arg, Blank(e.keywords[i].value))])
      [] e.kind = "Dict" ->
            Dict([i \in 1..Len(e.keys) |-> Blank(e.keys[i])], [i \in 1..Len(e.values) |-> Blank(e.values[i])])
      [] e.kind \in {"List", "Set", "Tuple"} -> [e EXCEPT !.elts = [i \in 1..Len(e.elts) |-> Blank(e.elts[i])]]
      [] e.kind = "Subscript" -> Subscript(Blank(e.value), Blank(e.slice))
      [] e.kind \in {"Name", "Constant"} -> e
      [] OTHER -> Name(<<>>)

\* C19: parse_annotation returns for every node, changes nothing else, returns
\* the empty text for an absent node and for a node of a kind it does not
\* handle, and writes such a node nested in a handled one as the empty text.
C19_Total ==
    ret.result = "return" =>
        /\ call.a.kind \notin HandledKinds => ret.text = <<>>
        /\ ret.text = parse_annotation(Blank(call.a))
        /\ objects = <<>> /\ config = config_0

\* [-1, a] is written "[, a]"
C19_Witness ==
    /\ ret.result = "return"
    /\ call.a = List(<<UnaryOp(ConstantInt(1)), Name(<<"a">>)>>)
    /\ ret.text = <<"[", ",", SP, "a", "]">>

\* the keyword arguments of a call: its keywords that have a name
KeywordArguments(a) == SelectSeq(a.keywords, LAMBDA k : k.arg # <<>>)

\* C20: parse_annotation writes a call as the text of its callee, then, between
\* parentheses and separated by ", ", name=value for exactly the keyword
\* arguments of the call in their order; positional arguments are left out.
C20_CallText ==
    (ret.result = "return" /\ call.a.kind = "Call") =>
        LET ks == KeywordArguments(call.a)
        IN  ret.text = parse_annotation(call.a.func) \o <<"(">>
                       \o Join([i \in 1..Len(ks) |-> ks[i].arg \o <<"=">> \o parse_annotation(ks[i].value)], <<",", SP>>)
                       \o <<")">>

-----------------------------------------------------------------------------
(* The text of an expression, read again as an expression.                 *)

RECURSIVE Supported(_)
\* the expressions made of names, attributes, subscripts, unions, calls with
\* keyword arguments, constants, lists, sets, tuples and dictionaries
Supported(e) ==
    CASE e.kind \in {"Name", "Constant"} -> TRUE
      [] e.kind = "Attribute" -> Supported(e.value)
      [] e.kind = "BinOp" -> Supported(e.left) /\ Supported(e.right)
      [] e.kind = "Call" ->
            /\ Supported(e.func)
            /\ e.args = <<>>
            /\ \A i \in 1..Len(e.keywords) : e.keywords[i].arg # <<>> /\ Supported(e.keywords[i].value)
      [] e.kind = "Dict" -> \A i \in 1..Len(e.keys) : Supported(e.keys[i]) /\ Supported(e.values[i])
      [] e.kind \in {"List", "Set", "Tuple"} -> \A i \in 1..Len(e.elts) : Supported(e.elts[i])
      [] e.kind = "Subscript" -> Supported(e.value) /\ Supported(e.slice)
      [] OTHER -> FALSE

SupportedExprs == {e \in AnnExprs : Supported(e)}

RECURSIVE PythonText(_)
\* the Python text of a supported expression, with the parentheses the grammar
\* requires: around a union or a number before ".", "[" or "(", around the
\* right operand of a union that is a union, around a tuple but in a
\* subscript; a tuple of one element ends with a comma
PythonText(e) ==
    LET SourceList(es) == [i \in 1..Len(es) |-> PythonText(es[i])]
        Paren(x) == <<"(">> \o PythonText(x) \o <<")">>
        Primary(x) == IF x.kind = "BinOp" \/ (x.kind = "Constant" /\ x.type = "int") THEN Paren(x) ELSE PythonText(x)
    IN  CASE e.kind = "Name" -> e.id
          [] e.kind = "Constant" ->
                (CASE e.type = "str" -> <<"\"">> \o e.value \o <<"\"">>
                   [] e.type = "int" -> Str(e.n)
                   [] OTHER -> <<"N", "o", "n", "e">>)
          [] e.kind = "Attribute" -> Primary(e.value) \o <<".">> \o e.attr
          [] e.kind = "BinOp" ->
                PythonText(e.left) \o <<SP, "|", SP>> \o (IF e.right.kind = "BinOp" THEN Paren(e.right) ELSE PythonText(e.right))
          [] e.kind = "Call" ->
                Primary(e.func) \o <<"(">>
                \o Join([i \in 1..Len(e.keywords) |-> e.keywords[i].arg \o <<"=">> \o PythonText(e.keywords[i].value)], <<",", SP>>)
                \o <<")">>
          [] e.kind = "Dict" ->
                <<"{">>
                \o Join([i \in 1..Len(e.keys) |-> PythonText(e.keys[i]) \o <<":", SP>> \o PythonText(e.values[i])], <<",", SP>>)
                \o <<"}">>
          [] e.kind = "List" -> <<"[">> \o Join(SourceList(e.elts), <<",", SP>>) \o <<"]">>
          [] e.kind = "Set" -> <<"{">> \o Join(SourceList(e.elts), <<",", SP>>) \o <<"}">>
          [] e.kind = "Tuple" ->
                <<"(">> \o Join(SourceList(e.elts), <<",", SP>>) \o (IF Len(e.elts) = 1 THEN <<",", ")">> ELSE <<")">>)
          [] e.kind = "Subscript" ->
                Primary(e.value) \o <<"[">>
                \o (IF e.slice.kind = "Tuple" /\ Len(e.slice.elts) > 0
                    THEN Join(SourceList(e.slice.elts), <<",", SP>>) \o (IF Len(e.slice.elts) = 1 THEN <<",">> ELSE <<>>)
                    ELSE PythonText(e.slice))
                \o <<"]">>

\* the text t is parsed as the expression e: it is the text of e, between
\* parentheses or not
ParsedAs(t, e) == t = PythonText(e) \/ t = <<"(">> \o PythonText(e) \o <<")">>

\* C18: when the text parse_annotation returns for a supported expression is
\* itself parsed as an expression, parse_annotation returns the same text for
\* that expression.
C18_Idempotent ==
    (ret.result = "return" /\ Supported(call.a)) =>
        \A e \in SupportedExprs : ParsedAs(ret.text, e) => parse_annotation(e) = ret.text

-----------------------------------------------------------------------------
(* The bullet list of the methods of a class.                              *)

\* index in the text returned of the heading of the section of f, 0 when the
\* text has none
HeadingAt(f) == FindFrom(ret.text, 1, Heading(f) \o <<NL>>)

\* the functions defined under the class q whose section the text holds
MethodsRendered(q) ==
    {CallDefs[i].name : i \in {j \in 1..Len(CallDefs) :
        /\ CallDefs[j].kind = "FunctionDef"
        /\ StartsWith(CallDefs[j].name, q \o <<".">>)
        /\ HeadingAt(CallDefs[j].name) # 0}}

RECURSIVE ByHeading(_)
\* the names of S in the order of their sections in the text
ByHeading(S) ==
    IF S = {} THEN <<>>
    ELSE LET f == CHOOSE x \in S : \A y \in S : HeadingAt(x) <= HeadingAt(y)
         IN  <<f>> \o ByHeading(S \ {f})

\* * [`name()`](#anchor), then ": " and the first line of the docstring when
\* it is not empty
MethodEntry(f) ==
    LET desc == FirstLine(format_docstring(LastDef(CallDefs, [kind |-> "FunctionDef", name |-> f]).doc))
    IN  BulletOf(LastPart(f, "."), <<"(", ")">>, f) \o (IF desc # <<>> THEN <<":", SP>> \o desc ELSE <<>>)

\* **Methods**, a blank line, and an entry a line for the names ms
MethodList(ms) ==
    <<"*", "*", "Methods", "*", "*", NL, NL>> \o Join([i \in 1..Len(ms) |-> MethodEntry(ms[i])], <<NL>>)

-----------------------------------------------------------------------------
(* The arguments of render.                                                *)

\* C22: render returns "Nothing to do." when it is given neither a path nor a
\* source text, and whenever it is given one of them and returns, it returns
\* a page and not that text.
C22_NothingToDo ==
    ncalls > 0 =>
        /\ (call.filepath = <<>> /\ call.code = NoCode) => (ret.result = "return" /\ ret.text = <<"Nothing to do.">>)
        /\ (ret.result = "return" /\ (call.filepath # <<>> \/ call.code # NoCode)) => ret.text # <<"Nothing to do.">>

\* C27: two render calls in a row with equal arguments and configuration, that
\* both return, return equal texts.
C27_SameArgumentsSameText ==
    [][(ncalls' = ncalls + 1 /\ ncalls > 0 /\ call' = call /\ ret.result = "return" /\ ret'.result = "return")
        => ret'.text = ret.text]_vars

\* C28: a render call that raises, or that returns "Nothing to do.", leaves the
\* templates, the configuration and the index of objects as they were.
C28_FailedCallChangesNothing ==
    [][(ncalls' = ncalls + 1 /\ (ret'.result = "raise" \/ ret'.text = <<"Nothing to do.">>))
        => /\ TPL_CLASSDEF' = TPL_CLASSDEF
           /\ TPL_FUNCTIONDEF' = TPL_FUNCTIONDEF
           /\ TPL_MODULE' = TPL_MODULE
           /\ config' = config
           /\ objects' = objects]_vars

\* the names of the functions defined in a tree, and those of the entries of
\* the registry parse returned
FunctionNames(tree) ==
    LET ds == DefList(tree.body, <<>>)
    IN  {ds[i].node.name : i \in {j \in 1..Len(ds) : ds[j].kind = "FunctionDef"}}

ParsedNames == {parsed.functions[i][2].funcname : i \in 1..Len(parsed.functions)}

\* C30: whatever remove_from_path is, render opens the file at the path it is
\* given: it returns the page of the tree of that file when there is one, and
\* raises when the path leads to a directory, to nothing or to a text that is
\* not Python.
C30_OpensGivenPath ==
    (ncalls > 0 /\ call.filepath # <<>>) =>
        IF PathKind(Files, call.filepath, 1) = "Module"
        THEN ret.result = "return" /\ ParsedNames = FunctionNames(DGet(Files, call.filepath))
        ELSE ret.result = "raise"

-----------------------------------------------------------------------------
(* Blank lines in the text returned.                                       *)

\* C24: the text render returns never holds three line breaks in a row, and
\* neither starts nor ends with a line break.
C24_NoDoubleBlankLine ==
    (ncalls > 0 /\ ret.result = "return") =>
        /\ ~Contains(ret.text, <<NL, NL, NL>>)
        /\ ret.text # <<>> /\ ret.text[1] # NL /\ ret.text[Len(ret.text)] # NL

\* C24 happens: the page of a class without decoration, whose template leaves
\* four line breaks between the docstring and the list of methods
C24_Witness ==
    /\ Returned
    /\ call.code = SourcePlain
    /\ Contains(ret.text, <<"D", "c", ".", NL, NL, "*", "*", "Methods", "*", "*", NL, NL>>)

\* C25: in the text render returns no blank line stands before a line that
\* starts with %%%BEGIN, %%%START or %%%END.
C25_NoBlankBeforeMarker ==
    (ncalls > 0 /\ ret.result = "return") =>
        \A m \in {"BEGIN", "START", "END"} : ~Contains(ret.text, <<NL, NL, "%%%", m>>)

-----------------------------------------------------------------------------
(* The modules of a folder.                                                *)

\* the files render_recursively is to render for the path of the call: the
\* paths under it that end with .py, but those whose name starts with an
\* underscore, unless show_private is set or the name is __init__.py
RecShown ==
    {RecFiles[i][1] : i \in {j \in 1..Len(RecFiles) :
        LET f == RecFiles[j][1]
            name == LastPart(f, "/")
        IN  /\ StartsWith(f, call.filepath \o <<"/">>)
            /\ EndsWith(f, PY)
            /\ name[1] # "_" \/ call.config.show_private \/ name = INIT \o PY}}

\* the same paths in ascending order: the i-th has i - 1 paths before it
RecExpected ==
    [i \in 1..Cardinality(RecShown) |->
        CHOOSE p \in RecShown : Cardinality({q \in RecShown : Before(q, p)}) = i - 1]

\* index in the text returned of the title of the module of the file p, 0 when
\* the text has none
TitleAt(p) == FindFrom(ret.text, 1, <<"#", SP, "Module", SP, BT>> \o ModuleOf(p) \o <<BT>>)

\* index of the beginning of the line that holds index i
LineStart(i) == MaxOf({j \in 1..i : j = 1 \/ ret.text[j - 1] = NL})

RECURSIVE OutputStart(_)
\* index of the beginning of the output whose title line begins at index i:
\* the marker lines that stand right before the title belong to it
OutputStart(i) ==
    IF i > 2 /\ ret.text[LineStart(i - 1)] = "%%%" THEN OutputStart(LineStart(i - 1)) ELSE i

\* C23: render_recursively renders the .py files under the path in ascending
\* order of their paths, skipping the files whose name starts with an underscore
\* unless show_private is set or the name is __init__.py, and returns their
\* outputs in that order, with one blank line between two outputs.
C23_RenderedInOrder ==
    (ncalls > 0 /\ ret.result = "return") =>
        LET ps == RecExpected
        IN  /\ ncalls = 1 => DKeys(objects) = [i \in 1..Len(ps) |-> ModuleOf(ps[i])]
            /\ Cardinality({j \in 1..Len(ret.text) : MatchAt(ret.text, j, <<"#", SP, "Module", SP, BT>>)}) = Len(ps)
            /\ \A i \in 1..Len(ps) : TitleAt(ps[i]) # 0
            /\ \A i \in 1..(Len(ps) - 1) : TitleAt(ps[i]) < TitleAt(ps[i + 1])
            /\ ps # <<>> => OutputStart(LineStart(TitleAt(ps[1]))) = 1
            /\ \A i \in 2..Len(ps) :
                    LET k == OutputStart(LineStart(TitleAt(ps[i])))
                    IN  k > 3 /\ ret.text[k - 1] = NL /\ ret.text[k - 2] = NL /\ ret.text[k - 3] # NL

\* C23 happens: the folder d without show_private, rendered as d/B.py,
\* d/__init__.py, d/a.py, d/b.py and d/sub/c.py, and not d/_h.py
C23_Witness ==
    /\ ncalls = 1 /\ ret.result = "return"
    /\ call.filepath = <<"d">> /\ ~call.config.show_private
    /\ DKeys(objects) = << <<"d", ".", "B">>, <<"d">>, <<"d", ".", "a">>, <<"d", ".", "b">>, <<"d", ".", "s", "u", "b", ".", "c">> >>
    /\ Contains(ret.text, <<"I", ".", NL, NL, "#", SP, "Module", SP, BT, "d", ".", "a", BT>>)

-----------------------------------------------------------------------------
(* The registries of a parse by itself.                                    *)

\* the registries parse makes of the tree alone: the walk, started with empty
\* registries
RegistriesOf(node, module) ==
    LET p == parse(node, 1, module, module,
                   [classes |-> <<>>, functions |-> <<>>, imports |-> <<>>,
                    objects |-> << <<module, NoObjects>> >>], config)
    IN  [classes |-> p.classes, functions |-> p.functions]

\* the step is a call of parse without registries, which returned
ParseReturned == ncalls' = ncalls + 1 /\ "node" \in DOMAIN call' /\ ret'.result = "return"

\* C26: parse called without the classes, functions and imports arguments
\* returns registries that hold exactly the definitions of the tree given to
\* that call, also when parse was called before on another tree.
C26_FreshRegistries ==
    [][ParseReturned => parsed' = RegistriesOf(call'.node, call'.module)]_vars

-----------------------------------------------------------------------------
(* Rendering an object twice.                                              *)

\* the step repeats the call before it, and both calls returned
SameCallAgain ==
    /\ ncalls' = ncalls + 1 /\ ncalls > 0
    /\ call' = call
    /\ ret.result = "return" /\ ret'.result = "return"

\* C29: render_class called twice on the same class with the same registries
\* returns the same text both times, and so does render_function called twice
\* on the same function.
C29_SameTextTwice ==
    [][SameCallAgain => ret'.text = ret.text]_vars

\* the part on render_function: called twice on the same function, it returns
\* the same text both times
C29_FunctionTwice ==
    [][(SameCallAgain /\ call.function = "render_function") => ret'.text = ret.text]_vars

====
